---- MODULE Spec2Model ----
(***************************************************************************)
(* Model of the per-project infrastructure provisioning of clawd-backend:  *)
(* infrastructure_manager.py (PortAllocator, DatabaseProvisioner,          *)
(* ServiceManager, NginxConfigurator, DeploymentVerifier, DNSProvisioner,  *)
(* InfrastructureManager) and openclaw_wrapper.py (OpenClawWrapper).       *)
(*                                                                         *)
(* Each InfrastructureManager run is a process whose position is pc[p].    *)
(* One action models one phase of provision_all or one group of            *)
(* compensations of _rollback; the external commands a phase runs (psql,   *)
(* pm2, nginx, the DNS skill) succeed or fail nondeterministically, and    *)
(* the number of injected failures is bounded by MaxFaults.                *)
(***************************************************************************)
EXTENDS Integers, Sequences, FiniteSets, TLC

\* ---------------------------------------------------------------- bounds
\* Project names (slugs) that are provisioned.
Projects == {"alpha", "beta"}

\* The project that is provisioned when only one run is considered (the
\* projects are interchangeable).
SingleProject == "alpha"

\* Number of ports in each tier's range (the source has 1000 and 990).
PortRangeSize == 2

\* Number of external-command failures injected in one behaviour.
MaxFaults == 2

\* Number of direct calls (create_project, drop_database_and_user,
\* provision_project_dns) in one behaviour.
MaxCalls == 2

\* ------------------------------------------------------ program constants
FRONTEND_PORT_MIN == 3000
\* range(FRONTEND_PORT_MIN, FRONTEND_PORT_MAX) excludes the upper end.
FRONTEND_PORT_MAX == FRONTEND_PORT_MIN + PortRangeSize
BACKEND_PORT_MIN == 8010
BACKEND_PORT_MAX == BACKEND_PORT_MIN + PortRangeSize

FrontendRange == FRONTEND_PORT_MIN .. (FRONTEND_PORT_MAX - 1)
BackendRange == BACKEND_PORT_MIN .. (BACKEND_PORT_MAX - 1)

\* Python None / a missing dict key / SQL NULL for a port; falsy like 0.
NoPort == 0

\* The three values of projects.status.
Statuses == {"creating", "ready", "failed"}

\* --------------------------------------------------------- resource names
\* f"{project_name}_db", f"{project_name}_user"
DbName(p) == <<p, "_db">>
DbUser(p) == <<p, "_user">>
\* f"{project_name}-backend", f"{project_name}-frontend"
BackendApp(p) == <<p, "-backend">>
FrontendApp(p) == <<p, "-frontend">>
Apps == {BackendApp(p) : p \in Projects} \cup {FrontendApp(p) : p \in Projects}
\* frontend_subdomain = project_name, backend_subdomain = f"{project_name}-api"
FrontendSub(p) == <<p, "">>
BackendSub(p) == <<p, "-api">>
Subdomains == {FrontendSub(p) : p \in Projects} \cup {BackendSub(p) : p \in Projects}

VARIABLES
    projectsDb,        \* projects.db (PROJECT_DB_PATH): [readable, rows]
    used_ports,        \* used_ports[p]: PortAllocator.used_ports of p's manager
    ports,             \* ports[p]: InfrastructureManager.ports
    has_service_name,  \* hasattr(self, 'service_name')
    has_frontend_app,  \* hasattr(self, 'frontend_app_name')
    pc,                \* position of p's provision_all
    result,            \* return value of provision_all: "none", "True", "False"
    trace,             \* per run: the operations performed, in order
    verification,      \* per run: what verify_deployment returned
    pgDatabases,       \* databases existing in the PostgreSQL container
    pgUsers,           \* users existing in the PostgreSQL container
    pgConnections,     \* databases with open client connections
    envFile,           \* backend/.env of each project
    ecosystem,         \* PM2 ecosystem files written, by app name
    pm2,               \* PM2 registry: app name -> [state, port]
    nginxConf,         \* sites-available/<p>.conf: artifact or NoConf
    sitesEnabled,      \* projects with a symlink in sites-enabled
    liveConfig,        \* configuration nginx loaded at its last reload
    dnsRecords,        \* A records at the DNS provider, by subdomain
    projectJson,       \* project.json of each project: metadata or NoMeta
    status,            \* projects.status in the application database
    statusWrites,      \* statuses update_status was called with, per project
    wrapperDone,       \* run_all_phases has returned for p
    routeLog,          \* per project: the nginx operations its calls performed
    sqlLog,            \* per project: the SQL statements its calls issued
    dnsLog,            \* per project: what each DNS leg checked and created
    projectRows,       \* projects that have a row in the projects table
    projectDir,        \* the project's folder (project_path) exists
    del,               \* position of p's delete_project request
    cleanupLog,        \* per project: the steps of cleanup_infrastructure
    accepted,          \* rows create_project inserted: [id, name, domain, status]
    dropLog,           \* per project: direct calls of drop_database_and_user
    calls,             \* number of direct calls made so far
    portCall,          \* the last direct call of a PortAllocator method
    portHolder,        \* who holds each port of the allocator called directly
    svcCall,           \* the last direct call of a ServiceManager method
    jobs,              \* per row id: the background run started for the row
    namesake,          \* resources an earlier project of the same name holds
    budget             \* failures of external commands still to inject

worldVars == <<pgDatabases, pgUsers, pgConnections, envFile, ecosystem, pm2, nginxConf,
               sitesEnabled, liveConfig, dnsRecords, projectJson>>
runVars == <<used_ports, ports, has_service_name, has_frontend_app, pc,
             result, trace, verification>>
wrapperVars == <<status, statusWrites, wrapperDone>>
logVars == <<routeLog, sqlLog, dnsLog>>
deleteVars == <<projectRows, projectDir, del, cleanupLog>>
portVars == <<portCall, portHolder>>
jobVars == <<jobs, namesake>>
unitVars == <<accepted, dropLog, calls, portVars, svcCall, jobVars>>
vars == <<projectsDb, runVars, worldVars, wrapperVars, logVars, deleteVars, unitVars, budget>>

\* ---------------------------------------------------------------- helpers
Min(S) == CHOOSE x \in S : \A y \in S : x <= y

\* Number of FALSE entries of a sequence of outcomes.
RECURSIVE Failures(_)
Failures(oks) ==
    IF oks = <<>> THEN 0
    ELSE (IF Head(oks) THEN 0 ELSE 1) + Failures(Tail(oks))

\* The outcomes oks of the external commands of one step fit the budget.
Inject(oks) ==
    /\ Failures(oks) <= budget
    /\ budget' = budget - Failures(oks)

Ev(op, arg, ok) == [op |-> op, arg |-> arg, ok |-> ok]

Log(p, evs) == trace' = [trace EXCEPT ![p] = @ \o evs]

\* ------------------------------------------------------------ PortAllocator
Row(st, f, b) == [status |-> st, frontend_port |-> f, backend_port |-> b]

\* Variant of LoadUsedPorts that takes the ports of every row, whatever
\* its status.
LoadUsedPorts_AnyStatus(db) ==
    IF ~db.readable THEN {}
    ELSE {r.frontend_port : r \in {x \in db.rows : x.frontend_port # NoPort}}
         \cup {r.backend_port : r \in {x \in db.rows : x.backend_port # NoPort}}

\* _load_used_ports: the ports of the rows with status 'ready'; a NULL port
\* is skipped; any sqlite error leaves the set empty.
LoadUsedPorts(db) ==
    IF ~db.readable THEN {}
    ELSE {r.frontend_port : r \in {x \in db.rows : x.status = "ready" /\ x.frontend_port # NoPort}}
         \cup
         {r.backend_port : r \in {x \in db.rows : x.status = "ready" /\ x.backend_port # NoPort}}

\* Variant of FirstFree that returns the largest free port of the range.
FirstFree_LargestFree(lo, hi, used) ==
    LET free == {q \in lo .. (hi - 1) : q \notin used}
    IN IF free = {} THEN NoPort ELSE CHOOSE x \in free : \A y \in free : x >= y

\* for port in range(lo, hi): if port not in used_ports -> first free port;
\* NoPort stands for the RuntimeError raised when the loop finds none.
FirstFree(lo, hi, used) ==
    LET free == {q \in lo .. (hi - 1) : q \notin used}
    IN IF free = {} THEN NoPort ELSE Min(free)

allocate_frontend_port(used) == FirstFree(FRONTEND_PORT_MIN, FRONTEND_PORT_MAX, used)
allocate_backend_port(used) == FirstFree(BACKEND_PORT_MIN, BACKEND_PORT_MAX, used)

\* Variant of Reserved that adds a value to the set when the loop found no
\* free port.
Reserved_AlsoWhenExhausted(used, port) == used \cup {port}

\* self.used_ports.add(port) runs inside the loop, for the port that is
\* returned; when the loop ends without a free port nothing is added.
Reserved(used, port) == IF port = NoPort THEN used ELSE used \cup {port}

\* What one direct call of a PortAllocator method did: the used-set before
\* and after, the value returned, whether it raised, and who held each port
\* when the call was made.  again is the used-set after the same release
\* is repeated.
PortCall(op, caller, args, before, after, returned, raised, again, holders) ==
    [op |-> op, caller |-> caller, args |-> args, before |-> before, after |-> after,
     returned |-> returned, raised |-> raised, again |-> again, holders |-> holders]
NoHolders == [q \in FrontendRange \cup BackendRange |-> "none"]
NoCall == PortCall("none", "none", <<>>, {}, {}, NoPort, FALSE, {}, NoHolders)

\* release_ports: "if port:" skips None; discard() ignores a missing port.
release_ports(used, frontend_port, backend_port) ==
    (used \ (IF frontend_port # NoPort THEN {frontend_port} ELSE {}))
          \ (IF backend_port # NoPort THEN {backend_port} ELSE {})


\* ------------------------------------------------------ DatabaseProvisioner
\* The PostgreSQL container: databases, users, and the databases that have
\* open client connections.
Pg(dbs, users, conns) == [dbs |-> dbs, users |-> users, conns |-> conns]

SqlStmt(kind, target) == [kind |-> kind, target |-> target]

\* create_database_and_user: CREATE DATABASE, CREATE USER, GRANT, in that
\* order; what _execute_sql returns is not looked at.
CreateStatements(p) ==
    <<SqlStmt("create_database", DbName(p)),
      SqlStmt("create_user", DbUser(p)),
      SqlStmt("grant", DbName(p))>>

\* Variant of DropStatements that drops the database before its connections
\* are terminated.
DropStatements_DropBeforeTerminate(p) ==
    <<SqlStmt("drop_database", DbName(p)),
      SqlStmt("terminate", DbName(p)),
      SqlStmt("drop_user", DbUser(p))>>

\* drop_database_and_user: pg_terminate_backend for the connections to the
\* database, DROP DATABASE IF EXISTS, DROP USER IF EXISTS, in that order.
DropStatements(p) ==
    <<SqlStmt("terminate", DbName(p)),
      SqlStmt("drop_database", DbName(p)),
      SqlStmt("drop_user", DbUser(p))>>

\* A statement exits 0: psql ran it (ok) and PostgreSQL accepted it.  CREATE
\* of something existing is an error; DROP DATABASE is refused while other
\* sessions are connected to the database; DROP ... IF EXISTS and
\* pg_terminate_backend of nothing are accepted.
StmtSucceeds(pg, stmt, ok) ==
    /\ ok
    /\ stmt.kind = "create_database" => stmt.target \notin pg.dbs
    /\ stmt.kind = "create_user" => stmt.target \notin pg.users
    /\ stmt.kind = "drop_database" => stmt.target \notin pg.conns

\* _execute_sql never raises: a non-zero exit, a timeout or any other error
\* is logged and [] is returned, so a failed statement only has no effect.
ExecSql(pg, stmt, ok) ==
    IF ~StmtSucceeds(pg, stmt, ok) THEN pg
    ELSE CASE stmt.kind = "create_database" -> [pg EXCEPT !.dbs = @ \cup {stmt.target}]
           [] stmt.kind = "create_user" -> [pg EXCEPT !.users = @ \cup {stmt.target}]
           [] stmt.kind = "grant" -> pg
           [] stmt.kind = "terminate" -> [pg EXCEPT !.conns = @ \ {stmt.target}]
           [] stmt.kind = "drop_database" -> [pg EXCEPT !.dbs = @ \ {stmt.target}]
           [] stmt.kind = "drop_user" -> [pg EXCEPT !.users = @ \ {stmt.target}]

\* The statements of one call, run one after the other.
RECURSIVE ExecAll(_, _, _)
ExecAll(pg, stmts, oks) ==
    IF stmts = <<>> THEN pg
    ELSE ExecAll(ExecSql(pg, Head(stmts), Head(oks)), Tail(stmts), Tail(oks))

\* Every statement of the call exited 0.
RECURSIVE AllSucceed(_, _, _)
AllSucceed(pg, stmts, oks) ==
    IF stmts = <<>> THEN TRUE
    ELSE /\ StmtSucceeds(pg, Head(stmts), Head(oks))
         /\ AllSucceed(ExecSql(pg, Head(stmts), Head(oks)), Tail(stmts), Tail(oks))

\* ----------------------------------------------------------- ServiceManager
\* A started backend reads DATABASE_URL from its .env and may open a
\* connection to the project's database; a backend process that has been
\* stopped or removed holds none.
OpenedConnections(conns, p, connects) ==
    IF connects THEN conns \cup {DbName(p)} ELSE conns
ClosedConnections(conns, p, reg) ==
    IF reg[BackendApp(p)].state = "online" THEN conns ELSE conns \ {DbName(p)}

NoApp == [state |-> "absent", port |-> NoPort]

\* pm2 start <ecosystem file>: registers the app and runs it on the port of
\* its ecosystem file.
Pm2Start(reg, app, port, ok) ==
    IF ok THEN [reg EXCEPT ![app] = [state |-> "online", port |-> port]] ELSE reg

\* start_backend_service returns False without calling pm2 when the
\* ecosystem file is missing; start_frontend_service starts the file
\* create_frontend_service has just written.
start_backend_service(reg, app, eco, ok) ==
    IF eco[app] = NoPort THEN reg ELSE Pm2Start(reg, app, eco[app], ok)
start_frontend_service(reg, app, eco, ok) == Pm2Start(reg, app, eco[app], ok)

\* pm2 stop <name> exits non-zero when no such app is registered.
StopSucceeds(reg, app, ok) == ok /\ reg[app].state # "absent"
stop_service(reg, app, ok) ==
    IF StopSucceeds(reg, app, ok) THEN [reg EXCEPT ![app].state = "stopped"] ELSE reg

\* pm2 delete <name> exits non-zero when no such app is registered.
DeleteSucceeds(reg, app, ok) == ok /\ reg[app].state # "absent"
delete_service(reg, app, ok) ==
    IF DeleteSucceeds(reg, app, ok) THEN [reg EXCEPT ![app] = NoApp] ELSE reg

\* What start_backend_service, stop_service and delete_service return: True
\* when the command exits 0; a non-zero exit returns False, and so does
\* subprocess.TimeoutExpired, which "except Exception" catches with every
\* other error.
ServiceResult(succeeds, outcome) == IF succeeds THEN "True" ELSE "False"

\* What one direct call of a ServiceManager method did: how its command
\* ended, what the method returned, whether it raised.
SvcCall(op, app, outcome, returned, raised) ==
    [op |-> op, app |-> app, outcome |-> outcome, returned |-> returned, raised |-> raised]
NoSvcCall == SvcCall("none", <<"", "">>, "ok", "None", FALSE)

\* -------------------------------------------------------- NginxConfigurator
NoConf == [frontend_port |-> NoPort, backend_port |-> NoPort]

\* generate_config: the two server blocks proxy to the two ports.
generate_config(frontend_port, backend_port) ==
    [frontend_port |-> frontend_port, backend_port |-> backend_port]

InstallOutcomes == {"ok", "write_failed", "symlink_failed"}

\* install_config: write_text, then unlink an existing symlink, then
\* symlink_to; an exception at either point returns False.
InstalledConf(conf, p, artifact, how) ==
    IF how = "write_failed" THEN conf ELSE [conf EXCEPT ![p] = artifact]
InstalledEnabled(enabled, p, how) ==
    CASE how = "ok" -> enabled \cup {p}
      [] how = "write_failed" -> enabled
      [] how = "symlink_failed" -> enabled \ {p}

\* What nginx serves after a reload of the aggregate configuration.
Aggregate(conf, enabled) ==
    [q \in Projects |-> IF q \in enabled THEN conf[q] ELSE NoConf]

\* Variant of ReloadIssued that signals the reload whatever the test said.
ReloadIssued_WithoutTest(okTest) == TRUE

\* reload_nginx: "nginx -t" first; a non-zero exit returns False before
\* "nginx -s reload" is run (a timeout or a missing binary raises and is
\* caught, with the same outcome).
ReloadIssued(okTest) == okTest

\* True only when the test and the reload both exit 0.
ReloadSucceeds(okTest, okReload) == okTest /\ okReload

\* The configuration nginx serves after the call: a reload that was issued
\* and exited 0 loaded the aggregate of the enabled artifacts.
reload_nginx(live, conf, enabled, okTest, okReload) ==
    IF ReloadIssued(okTest) /\ okReload THEN Aggregate(conf, enabled) ELSE live

\* What one nginx operation of a call did, for routeLog: op is
\* "install_config", "remove_config", "reload_nginx" (NginxConfigurator) or
\* "cleanup_nginx_config" (app.py).
FileOp(op, ok) ==
    [op |-> op, test_ok |-> TRUE, reload_issued |-> FALSE, result |-> ok, live_same |-> TRUE]
ReloadOp(op, live, conf, enabled, okTest, okReload) ==
    [op |-> op, test_ok |-> okTest, reload_issued |-> ReloadIssued(okTest),
     result |-> ReloadSucceeds(okTest, okReload),
     live_same |-> (reload_nginx(live, conf, enabled, okTest, okReload) = live)]

\* remove_config: unlink symlink and file when they exist, then reload_nginx;
\* an exception while unlinking returns False before the reload.
RemovedConf(conf, p, okUnlink) == IF okUnlink THEN [conf EXCEPT ![p] = NoConf] ELSE conf
RemovedEnabled(enabled, p, okUnlink) == IF okUnlink THEN enabled \ {p} ELSE enabled

\* ------------------------------------------------------- DeploymentVerifier
\* check_port: a TCP connect to 127.0.0.1:port succeeds when a running
\* process listens there.
check_port(reg, port) ==
    \E a \in Apps : reg[a].state = "online" /\ reg[a].port = port

\* What a backend that accepted the connection answers on /health: HTTP 200
\* with {"status": "ok"}, HTTP 200 with another body, or an HTTP error.
HealthResponses == {"status_ok", "other_body", "http_error"}

\* Variant of check_health_endpoint that is content with any HTTP 200.
check_health_endpoint_AnyHttp200(response) == response \in {"status_ok", "other_body"}

\* check_health_endpoint builds urllib.request.Request(url, timeout=timeout);
\* Request takes no timeout argument, so the call raises TypeError, which the
\* method's "except Exception" turns into False, whatever the backend answers
\* (the line that compares result.get('status') with 'ok' is never reached).
check_health_endpoint(response) == FALSE

NoVerification ==
    [frontend_port_open |-> FALSE, backend_port_open |-> FALSE,
     backend_health_ok |-> FALSE, overall |-> FALSE, done |-> FALSE,
     health_response |-> "not_probed"]

\* Variant of HealthProbed that probes whatever check_port returned.
HealthProbed_Always(backend_port_open) == TRUE

\* if results["backend_port_open"]: only then is check_health_endpoint called.
HealthProbed(backend_port_open) == backend_port_open

\* verify_deployment; response is what the backend would answer on /health
\* and health_response records the answer of the probe that was issued.
verify_deployment(reg, frontend_port, backend_port, response) ==
    LET fo == check_port(reg, frontend_port)
        bo == check_port(reg, backend_port)
        probed == HealthProbed(bo)
        ho == IF probed THEN check_health_endpoint(response) ELSE FALSE
    IN [frontend_port_open |-> fo, backend_port_open |-> bo,
        backend_health_ok |-> ho, overall |-> (fo /\ bo /\ ho), done |-> TRUE,
        health_response |-> IF probed THEN response ELSE "not_probed"]

\* ----------------------------------------------------------- DNSProvisioner
\* An A record is absent, points at SERVER_IP, or points elsewhere.
DnsValues == {"none", "server_ip", "other_ip"}

\* Variant of check_subdomain_exists that never finds a record.
check_subdomain_exists_NeverFound(rec, okCheck) == [exists |-> FALSE, ip |-> "none"]

\* check_subdomain_exists: (exists, current_ip); (False, None) when the
\* skill exits non-zero or raises.
check_subdomain_exists(rec, okCheck) ==
    IF okCheck /\ rec # "none" THEN [exists |-> TRUE, ip |-> rec]
    ELSE [exists |-> FALSE, ip |-> "none"]

\* Variant of CreateAttempted that also creates over a record that points at
\* another address.
CreateAttempted_RepointsConflict(rec, okCheck) ==
    \/ ~check_subdomain_exists(rec, okCheck).exists
    \/ check_subdomain_exists(rec, okCheck).ip # "server_ip"

\* One leg of provision_project_dns: no create when the record is reported
\* to exist; success when it points at SERVER_IP or when the create exits 0.
CreateAttempted(rec, okCheck) == ~check_subdomain_exists(rec, okCheck).exists
DnsSuccess(rec, okCheck, okCreate) ==
    IF check_subdomain_exists(rec, okCheck).exists
    THEN check_subdomain_exists(rec, okCheck).ip = "server_ip"
    ELSE okCreate
DnsAfter(rec, okCheck, okCreate) ==
    IF CreateAttempted(rec, okCheck) /\ okCreate THEN "server_ip" ELSE rec

\* What one leg did, for dnsLog: what the check reported, whether
\* create_a_record was called, and the leg's entry in the results dict.
DnsLeg(sub, rec, okCheck, okCreate) ==
    [sub |-> sub,
     check_ok |-> okCheck,
     exists |-> check_subdomain_exists(rec, okCheck).exists,
     ip |-> check_subdomain_exists(rec, okCheck).ip,
     create_called |-> CreateAttempted(rec, okCheck),
     success |-> DnsSuccess(rec, okCheck, okCreate),
     before |-> rec,
     after |-> DnsAfter(rec, okCheck, okCreate)]

\* ------------------------------------------------- backend .env, metadata
NoUrl == "none"
StaleUrl == "stale_url"
\* database_url returned by create_database_and_user of this run
DatabaseUrl(p) == p
\* a BACKEND_PORT left in .env by an earlier scaffold
StalePort == BACKEND_PORT_MIN - 1

NoEnv == [DATABASE_URL |-> NoUrl, BACKEND_PORT |-> NoPort]
StaleEnv == [DATABASE_URL |-> StaleUrl, BACKEND_PORT |-> StalePort]

\* _configure_backend_env: a DATABASE_URL line is replaced or appended; a
\* BACKEND_PORT line is appended only when no line has that key.
ConfiguredEnv(env, p, backend_port) ==
    [DATABASE_URL |-> DatabaseUrl(p),
     BACKEND_PORT |-> IF env.BACKEND_PORT = NoPort THEN backend_port ELSE env.BACKEND_PORT]

\* project.json: whether the file exists, and of its keys "ports",
\* "database" (name and user) and "domains".
NoName == <<"", "">>
NoMeta ==
    [saved |-> FALSE, ports |-> [frontend |-> NoPort, backend |-> NoPort],
     database |-> [name |-> NoName, user |-> NoName], has_domains |-> FALSE]

\* project.json as _save_metadata would have written it for p.
ConventionalMeta(p) ==
    [saved |-> TRUE, ports |-> [frontend |-> NoPort, backend |-> NoPort],
     database |-> [name |-> DbName(p), user |-> DbUser(p)], has_domains |-> TRUE]

\* A project.json whose "database" names the shared engine database and
\* the administrator account psql connects with.
ProtectedMeta ==
    [saved |-> TRUE, ports |-> [frontend |-> NoPort, backend |-> NoPort],
     database |-> [name |-> <<"postgres", "">>, user |-> <<"admin", "">>],
     has_domains |-> FALSE]

\* A project.json whose "database" names the database of project q.
ForeignMeta(q) ==
    [saved |-> TRUE, ports |-> [frontend |-> NoPort, backend |-> NoPort],
     database |-> [name |-> DbName(q), user |-> DbUser(q)], has_domains |-> FALSE]

\* What project.json of p can hold when delete_project reads it.
MetaContents(p) ==
    {NoMeta, ConventionalMeta(p), ProtectedMeta}
    \cup {ForeignMeta(q) : q \in Projects \ {p}}

\* _save_metadata calls json.dumps, but infrastructure_manager.py never
\* imports json at module level (the only "import json" is local to
\* check_health_endpoint): the NameError is caught and logged inside
\* _save_metadata and project.json is not written.
SavedMetadata(meta, p, pts) == meta


\* ---------------------------------------------------------------- Init
\* Contents of projects.db when a manager is constructed.  No code of the
\* repository writes that file, so it is an input that stays as it is.
Db(rows) == [readable |-> TRUE, rows |-> rows]
DbContents ==
    { [readable |-> FALSE, rows |-> {}],
      Db({}),
      Db({Row("ready", FRONTEND_PORT_MIN, BACKEND_PORT_MIN)}),
      Db({Row("failed", FRONTEND_PORT_MIN, BACKEND_PORT_MIN)}),
      Db({Row("creating", FRONTEND_PORT_MIN, NoPort),
          Row("ready", NoPort, BACKEND_PORT_MIN)}),
      Db({Row("ready", NoPort, b) : b \in BackendRange}),
      Db({Row("ready", f, NoPort) : f \in FrontendRange}) }

NoPorts == [frontend |-> NoPort, backend |-> NoPort]

\* A records present at the provider before any run: none, all pointing at
\* this server, all pointing elsewhere, or only the frontend ones elsewhere.
DnsContents ==
    {[s \in Subdomains |-> v] : v \in DnsValues}
    \cup {[s \in Subdomains |-> IF s[2] = "" THEN "other_ip" ELSE "none"]}

\* The ids create_project gives the rows it inserts.
RowIds == 1 .. MaxCalls

\* No background run was started for a row.
NoRun ==
    [runner |-> "none", outcome |-> "none", succeeded |-> FALSE, writes |-> <<>>,
     connections |-> 0, returned |-> FALSE]

\* create_project compares only the domain with the rows it has, so a
\* project can bear the name of an earlier one; the database and the user
\* are named after the name, <name>_db and <name>_user.
NamesakeResources == {"database", "user"}
NoNamesake == [p \in Projects |-> {}]

InitWorld ==
    /\ projectsDb \in DbContents
    /\ used_ports = [p \in Projects |-> {}]
    /\ ports = [p \in Projects |-> NoPorts]
    /\ has_service_name = [p \in Projects |-> FALSE]
    /\ has_frontend_app = [p \in Projects |-> FALSE]
    /\ result = [p \in Projects |-> "none"]
    /\ trace = [p \in Projects |-> <<>>]
    /\ verification = [p \in Projects |-> NoVerification]
    /\ envFile \in {[p \in Projects |-> e] : e \in {NoEnv, StaleEnv}}
    /\ ecosystem = [a \in Apps |-> NoPort]
    /\ pm2 = [a \in Apps |-> NoApp]
    /\ nginxConf = [p \in Projects |-> NoConf]
    /\ sitesEnabled = {}
    /\ liveConfig = [p \in Projects |-> NoConf]
    /\ dnsRecords \in DnsContents
    /\ status = [p \in Projects |-> "creating"]
    /\ statusWrites = [p \in Projects |-> <<>>]
    /\ wrapperDone = [p \in Projects |-> FALSE]
    /\ routeLog = [p \in Projects |-> <<>>]
    /\ sqlLog = [p \in Projects |-> <<>>]
    /\ dnsLog = [p \in Projects |-> <<>>]
    /\ projectRows = Projects
    /\ projectDir = [p \in Projects |-> TRUE]
    /\ cleanupLog = [p \in Projects |-> <<>>]
    /\ accepted = {}
    /\ dropLog = [p \in Projects |-> <<>>]
    /\ calls = 0
    /\ portCall = NoCall
    /\ portHolder = NoHolders
    /\ svcCall = NoSvcCall
    /\ jobs = [id \in RowIds |-> NoRun]

\* No project database, user or connection exists yet.
EmptyPg == pgDatabases = {} /\ pgUsers = {} /\ pgConnections = {}

\* One project is provisioned, with up to MaxFaults failing commands.
Init ==
    /\ InitWorld
    /\ pc = [p \in Projects |-> IF p = SingleProject THEN "idle" ELSE "off"]
    /\ del = [p \in Projects |-> "off"]
    /\ projectJson = [p \in Projects |-> NoMeta]
    /\ EmptyPg
    /\ namesake = NoNamesake
    /\ budget = MaxFaults

\* Every project is provisioned, concurrently, and no command fails.
InitConc ==
    /\ InitWorld
    /\ pc = [p \in Projects |-> "idle"]
    /\ del = [p \in Projects |-> "off"]
    /\ projectJson = [p \in Projects |-> NoMeta]
    /\ EmptyPg
    /\ namesake = NoNamesake
    /\ budget = 0

\* ------------------------------------------------- InfrastructureManager
\* provision_all has returned for p.
Finished(p) == pc[p] = "done"

Goto(p, label) == pc' = [pc EXCEPT ![p] = label]

\* Variant of ProvisionSucceeds that is content with the two open ports.
ProvisionSucceeds_PortsOnly(v) == v.frontend_port_open /\ v.backend_port_open

\* if verification["overall"]: save the metadata and return True.
ProvisionSucceeds(v) == v.overall

\* Variant of NextPhase that starts the services before the route exists.
NextPhase_ServicesBeforeRoute(phase) ==
    CASE phase = "AllocatePorts" -> "ProvisionDatabase"
      [] phase = "ProvisionDatabase" -> "ConfigureBackendEnv"
      [] phase = "ConfigureBackendEnv" -> "RegisterServices"
      [] phase = "RegisterServices" -> "StartServices"
      [] phase = "StartServices" -> "ConfigureRoute"
      [] phase = "ConfigureRoute" -> "ProvisionDNS"
      [] phase = "ProvisionDNS" -> "Verify"

\* The phase provision_all enters when phase has returned without raising:
\* the statements of its try block, in the order they are written.
NextPhase(phase) ==
    CASE phase = "AllocatePorts" -> "ProvisionDatabase"
      [] phase = "ProvisionDatabase" -> "ConfigureBackendEnv"
      [] phase = "ConfigureBackendEnv" -> "RegisterServices"
      [] phase = "RegisterServices" -> "ConfigureRoute"
      [] phase = "ConfigureRoute" -> "ProvisionDNS"
      [] phase = "ProvisionDNS" -> "StartServices"
      [] phase = "StartServices" -> "Verify"

\* Variant of AfterDns that treats an unsuccessful DNS leg as a phase failure.
AfterDns_HardFailure(dnsOk) ==
    IF dnsOk THEN NextPhase("ProvisionDNS") ELSE "RollbackServices"

\* provision_all stores the dict provision_project_dns returns in
\* self.dns_results and does not look at it: the next phase follows.
AfterDns(dnsOk) == NextPhase("ProvisionDNS")

\* Variant of RollbackDns that deletes the project's two A records.
RollbackDns_DeletesRecords(records, p) ==
    [records EXCEPT ![FrontendSub(p)] = "none", ![BackendSub(p)] = "none"]

\* _rollback has no DNS step ("DNS A records are not deleted on rollback"):
\* the records are what they were.
RollbackDns(records, p) == records

\* Variant of RollbackNext in which the end of _rollback raises into the
\* handler of provision_all, which invokes _rollback again.
RollbackNext_InvokedAgain(step, ok) ==
    CASE step = "RollbackServices" -> "RollbackRoute"
      [] step = "RollbackRoute" -> "RollbackDatabase"
      [] step = "RollbackDatabase" -> "RollbackPorts"
      [] step = "RollbackPorts" -> "RollbackServices"

\* Variant of RollbackNext that drops the database before removing the route.
RollbackNext_DatabaseBeforeRoute(step, ok) ==
    CASE step = "RollbackServices" -> "RollbackDatabase"
      [] step = "RollbackDatabase" -> "RollbackRoute"
      [] step = "RollbackRoute" -> "RollbackPorts"
      [] step = "RollbackPorts" -> "done"

\* Variant of RollbackNext in which a failed compensation raises out of
\* _rollback's try block, skipping the groups after it.
RollbackNext_AbortOnFailure(step, ok) ==
    CASE ~ok -> "done"
      [] ok /\ step = "RollbackServices" -> "RollbackRoute"
      [] ok /\ step = "RollbackRoute" -> "RollbackDatabase"
      [] ok /\ step = "RollbackDatabase" -> "RollbackPorts"
      [] ok /\ step = "RollbackPorts" -> "done"

\* _rollback runs its groups in the order they are written; every call in
\* it returns a boolean that is not looked at (ok) and none raises, so the
\* next group follows whether or not the group before it succeeded.
RollbackNext(step, ok) ==
    CASE step = "RollbackServices" -> "RollbackRoute"
      [] step = "RollbackRoute" -> "RollbackDatabase"
      [] step = "RollbackDatabase" -> "RollbackPorts"
      [] step = "RollbackPorts" -> "done"

\* __init__: a fresh PortAllocator per manager, loaded from projects.db;
\* ports = {} and no service_name / frontend_app_name attribute yet.
Construct(p) ==
    /\ pc[p] = "idle"
    /\ used_ports' = [used_ports EXCEPT ![p] = LoadUsedPorts(projectsDb)]
    /\ ports' = [ports EXCEPT ![p] = NoPorts]
    /\ Goto(p, "AllocatePorts")
    /\ UNCHANGED <<unitVars, deleteVars, logVars, projectsDb, has_service_name, has_frontend_app, result, trace,
                   verification, worldVars, wrapperVars, budget>>

\* Phase 1.  The dict {"frontend": allocate_frontend_port(), "backend":
\* allocate_backend_port()} is assigned to self.ports only when both calls
\* return; a RuntimeError from either leaves self.ports = {} and goes to the
\* except clause, i.e. to _rollback.
AllocatePorts(p) ==
    /\ pc[p] = "AllocatePorts"
    /\ LET f == allocate_frontend_port(used_ports[p])
           u1 == IF f = NoPort THEN used_ports[p] ELSE used_ports[p] \cup {f}
           b == IF f = NoPort THEN NoPort ELSE allocate_backend_port(u1)
           u2 == IF b = NoPort THEN u1 ELSE u1 \cup {b}
           ok == f # NoPort /\ b # NoPort
       IN /\ used_ports' = [used_ports EXCEPT ![p] = u2]
          /\ ports' = IF ok THEN [ports EXCEPT ![p] = [frontend |-> f, backend |-> b]]
                      ELSE ports
          /\ Log(p, <<Ev("AllocatePorts", "", ok)>>)
          /\ Goto(p, IF ok THEN NextPhase("AllocatePorts") ELSE "RollbackServices")
    /\ UNCHANGED <<unitVars, deleteVars, logVars, projectsDb, has_service_name, has_frontend_app, result,
                   verification, worldVars, wrapperVars, budget>>

\* Phase 2.  create_database_and_user cannot fail: _execute_sql swallows
\* every error, so provision_all always goes on to phase 3.
ProvisionDatabase(p) ==
    /\ pc[p] = "ProvisionDatabase"
    /\ \E okDb, okUser, okGrant \in BOOLEAN :
        LET pg == Pg(pgDatabases, pgUsers, pgConnections)
            stmts == CreateStatements(p)
            oks == <<okDb, okUser, okGrant>>
        IN /\ Inject(oks)
           /\ pgDatabases' = ExecAll(pg, stmts, oks).dbs
           /\ pgUsers' = ExecAll(pg, stmts, oks).users
           /\ sqlLog' = [sqlLog EXCEPT ![p] = @ \o stmts]
           /\ Log(p, <<Ev("ProvisionDatabase", "", AllSucceed(pg, stmts, oks))>>)
    /\ Goto(p, NextPhase("ProvisionDatabase"))
    /\ UNCHANGED <<unitVars, deleteVars, pgConnections, routeLog, dnsLog, projectsDb, used_ports, ports, has_service_name, has_frontend_app,
                   result, verification, envFile, ecosystem, pm2, nginxConf,
                   sitesEnabled, liveConfig, dnsRecords, projectJson, wrapperVars>>

\* Phase 3.  _configure_backend_env re-raises an error of read_text or
\* write_text (ok = FALSE), which sends provision_all to _rollback.
ConfigureBackendEnv(p) ==
    /\ pc[p] = "ConfigureBackendEnv"
    /\ \E ok \in BOOLEAN :
        /\ Inject(<<ok>>)
        /\ envFile' = IF ok THEN [envFile EXCEPT ![p] = ConfiguredEnv(@, p, ports[p].backend)]
                      ELSE envFile
        /\ Log(p, <<Ev("ConfigureBackendEnv", "", ok)>>)
        /\ Goto(p, IF ok THEN NextPhase("ConfigureBackendEnv") ELSE "RollbackServices")
    /\ UNCHANGED <<unitVars, deleteVars, logVars, projectsDb, used_ports, ports, has_service_name, has_frontend_app,
                   result, verification, pgDatabases, pgUsers, pgConnections, ecosystem, pm2, nginxConf,
                   sitesEnabled, liveConfig, dnsRecords, projectJson, wrapperVars>>

\* Phase 4.  create_backend_service writes the ecosystem file and returns
\* the app name; an error writing it is re-raised before self.service_name
\* is assigned.
RegisterServices(p) ==
    /\ pc[p] = "RegisterServices"
    /\ \E ok \in BOOLEAN :
        /\ Inject(<<ok>>)
        /\ ecosystem' = IF ok THEN [ecosystem EXCEPT ![BackendApp(p)] = ports[p].backend]
                        ELSE ecosystem
        /\ has_service_name' = [has_service_name EXCEPT ![p] = ok]
        /\ Log(p, <<Ev("RegisterServices", "", ok)>>)
        /\ Goto(p, IF ok THEN NextPhase("RegisterServices") ELSE "RollbackServices")
    /\ UNCHANGED <<unitVars, deleteVars, logVars, projectsDb, used_ports, ports, has_frontend_app,
                   result, verification, pgDatabases, pgUsers, pgConnections, envFile, pm2, nginxConf,
                   sitesEnabled, liveConfig, dnsRecords, projectJson, wrapperVars>>

\* Phase 5, first half: generate_config and install_config; the boolean
\* install_config returns is not looked at.  No lock is taken: another
\* manager's steps can run between this one and the reload.
ConfigureRoute(p) ==
    /\ pc[p] = "ConfigureRoute"
    /\ \E how \in InstallOutcomes :
        /\ Inject(<<how = "ok">>)
        /\ LET artifact == generate_config(ports[p].frontend, ports[p].backend)
           IN /\ nginxConf' = InstalledConf(nginxConf, p, artifact, how)
              /\ sitesEnabled' = InstalledEnabled(sitesEnabled, p, how)
        /\ routeLog' = [routeLog EXCEPT ![p] = Append(@, FileOp("install_config", how = "ok"))]
    /\ Goto(p, "ReloadNginx")
    /\ UNCHANGED <<unitVars, deleteVars, sqlLog, dnsLog, projectsDb, used_ports, ports, has_service_name,
                   has_frontend_app, result, trace, verification, pgDatabases, pgUsers, pgConnections,
                   envFile, ecosystem, pm2, liveConfig, dnsRecords, projectJson,
                   wrapperVars>>

\* Phase 5, second half: reload_nginx; its boolean is not looked at either.
ReloadNginx(p) ==
    /\ pc[p] = "ReloadNginx"
    /\ \E okTest, okReload \in BOOLEAN :
        /\ ~okTest => okReload      \* no reload is run after a failed test
        /\ Inject(<<okTest, okReload>>)
        /\ liveConfig' = reload_nginx(liveConfig, nginxConf, sitesEnabled, okTest, okReload)
        /\ routeLog' = [routeLog EXCEPT ![p] =
                           Append(@, ReloadOp("reload_nginx", liveConfig, nginxConf,
                                              sitesEnabled, okTest, okReload))]
        /\ Log(p, <<Ev("ConfigureRoute", "",
                       routeLog[p][Len(routeLog[p])].result
                       /\ ReloadSucceeds(okTest, okReload))>>)
    /\ Goto(p, NextPhase("ConfigureRoute"))
    /\ UNCHANGED <<unitVars, deleteVars, sqlLog, dnsLog, projectsDb, used_ports, ports, has_service_name,
                   has_frontend_app, result, verification, pgDatabases, pgUsers, pgConnections, envFile,
                   ecosystem, pm2, nginxConf, sitesEnabled, dnsRecords, projectJson,
                   wrapperVars>>

\* Phase 6.  provision_project_dns handles the frontend subdomain, then the
\* backend one, and returns the results dict (it raises nothing).
ProvisionDNS(p) ==
    /\ pc[p] = "ProvisionDNS"
    /\ \E okCheckF, okCreateF, okCheckB, okCreateB \in BOOLEAN :
        LET recF == dnsRecords[FrontendSub(p)]
            recB == dnsRecords[BackendSub(p)]
            legF == DnsLeg(FrontendSub(p), recF, okCheckF, okCreateF)
            legB == DnsLeg(BackendSub(p), recB, okCheckB, okCreateB)
        IN /\ ~CreateAttempted(recF, okCheckF) => okCreateF
           /\ ~CreateAttempted(recB, okCheckB) => okCreateB
           /\ Inject(<<okCheckF, okCreateF, okCheckB, okCreateB>>)
           /\ dnsRecords' = [dnsRecords EXCEPT
                               ![FrontendSub(p)] = legF.after,
                               ![BackendSub(p)] = legB.after]
           /\ dnsLog' = [dnsLog EXCEPT ![p] = @ \o <<legF, legB>>]
           /\ Log(p, <<Ev("ProvisionDNS", "", legF.success /\ legB.success)>>)
           /\ Goto(p, AfterDns(legF.success /\ legB.success))
    /\ UNCHANGED <<unitVars, deleteVars, routeLog, sqlLog, projectsDb, used_ports, ports, has_service_name, has_frontend_app,
                   result, verification, pgDatabases, pgUsers, pgConnections, envFile, ecosystem, pm2,
                   nginxConf, sitesEnabled, liveConfig, projectJson, wrapperVars>>

\* Phase 7.  start_backend_service (result ignored), create_frontend_service
\* (an error is re-raised before self.frontend_app_name is assigned),
\* start_frontend_service (a failure is only a warning).
StartServices(p) ==
    /\ pc[p] = "StartServices"
    /\ \E okBackend, okCreate, okFrontend, connects \in BOOLEAN :
        /\ ~okCreate => okFrontend    \* not reached when the create raises
        /\ Inject(<<okBackend, okCreate, okFrontend>>)
        /\ LET reg1 == start_backend_service(pm2, BackendApp(p), ecosystem, okBackend)
               eco1 == IF okCreate
                       THEN [ecosystem EXCEPT ![FrontendApp(p)] = ports[p].frontend]
                       ELSE ecosystem
           IN /\ connects => (reg1[BackendApp(p)].state = "online" /\ DbName(p) \in pgDatabases)
              /\ pgConnections' = OpenedConnections(pgConnections, p, connects)
              /\ ecosystem' = eco1
              /\ pm2' = IF okCreate
                        THEN start_frontend_service(reg1, FrontendApp(p), eco1, okFrontend)
                        ELSE reg1
        /\ has_frontend_app' = [has_frontend_app EXCEPT ![p] = okCreate]
        /\ Log(p, <<Ev("StartServices", "", okBackend /\ okCreate /\ okFrontend)>>)
        /\ Goto(p, IF okCreate THEN NextPhase("StartServices") ELSE "RollbackServices")
    /\ UNCHANGED <<unitVars, deleteVars, logVars, projectsDb, used_ports, ports, has_service_name,
                   result, verification, pgDatabases, pgUsers, envFile,
                   nginxConf, sitesEnabled, liveConfig, dnsRecords, projectJson,
                   wrapperVars>>

\* Verification.  overall = True: _save_metadata, return True; otherwise
\* _rollback, return False.
Verify(p) ==
    /\ pc[p] = "Verify"
    /\ \E response \in HealthResponses :
       LET v == verify_deployment(pm2, ports[p].frontend, ports[p].backend, response)
       IN /\ verification' = [verification EXCEPT ![p] = v]
          /\ Log(p, <<Ev("Verify", "", v.overall)>>)
          /\ IF ProvisionSucceeds(v)
             THEN /\ projectJson' = [projectJson EXCEPT ![p] = SavedMetadata(@, p, ports[p])]
                  /\ result' = [result EXCEPT ![p] = "True"]
                  /\ Goto(p, "done")
             ELSE /\ UNCHANGED <<projectJson, result>>
                  /\ Goto(p, "RollbackServices")
    /\ UNCHANGED <<unitVars, deleteVars, logVars, projectsDb, used_ports, ports, has_service_name, has_frontend_app,
                   pgDatabases, pgUsers, pgConnections, envFile, ecosystem, pm2, nginxConf,
                   sitesEnabled, liveConfig, dnsRecords, wrapperVars, budget>>

\* _rollback, first group: stop and delete the backend service when
\* service_name was assigned, then the frontend service when
\* frontend_app_name was assigned.  stop_service and delete_service catch
\* every error (a timeout included) and return False.
RollbackServices(p) ==
    /\ pc[p] = "RollbackServices"
    /\ \E s1, d1, s2, d2 \in BOOLEAN :
        LET b == BackendApp(p)
            f == FrontendApp(p)
            reg1 == IF has_service_name[p] THEN stop_service(pm2, b, s1) ELSE pm2
            reg2 == IF has_service_name[p] THEN delete_service(reg1, b, d1) ELSE reg1
            reg3 == IF has_frontend_app[p] THEN stop_service(reg2, f, s2) ELSE reg2
            reg4 == IF has_frontend_app[p] THEN delete_service(reg3, f, d2) ELSE reg3
        IN /\ ~has_service_name[p] => (s1 /\ d1)
           /\ ~has_frontend_app[p] => (s2 /\ d2)
           /\ Inject(<<s1, d1, s2, d2>>)
           /\ pm2' = reg4
           /\ pgConnections' = ClosedConnections(pgConnections, p, reg4)
           /\ Log(p, (IF has_service_name[p]
                      THEN <<Ev("stop_service", "backend", StopSucceeds(pm2, b, s1)),
                             Ev("delete_service", "backend", DeleteSucceeds(reg1, b, d1))>>
                      ELSE <<>>)
                     \o
                     (IF has_frontend_app[p]
                      THEN <<Ev("stop_service", "frontend", StopSucceeds(reg2, f, s2)),
                             Ev("delete_service", "frontend", DeleteSucceeds(reg3, f, d2))>>
                      ELSE <<>>))
           /\ Goto(p, RollbackNext("RollbackServices",
                                   /\ has_service_name[p] => (StopSucceeds(pm2, b, s1)
                                                              /\ DeleteSucceeds(reg1, b, d1))
                                   /\ has_frontend_app[p] => (StopSucceeds(reg2, f, s2)
                                                              /\ DeleteSucceeds(reg3, f, d2))))
    /\ UNCHANGED <<unitVars, deleteVars, logVars, projectsDb, used_ports, ports, has_service_name, has_frontend_app,
                   result, verification, pgDatabases, pgUsers, envFile, ecosystem,
                   nginxConf, sitesEnabled, liveConfig, dnsRecords, projectJson,
                   wrapperVars>>

\* _rollback, second group: remove_config (which reloads nginx).
RollbackRoute(p) ==
    /\ pc[p] = "RollbackRoute"
    /\ \E okUnlink, okTest, okReload \in BOOLEAN :
        /\ (nginxConf[p] = NoConf /\ p \notin sitesEnabled) => okUnlink
        /\ ~okUnlink => (okTest /\ okReload)   \* returns before the reload
        /\ ~okTest => okReload
        /\ Inject(<<okUnlink, okTest, okReload>>)
        /\ LET conf == RemovedConf(nginxConf, p, okUnlink)
               enabled == RemovedEnabled(sitesEnabled, p, okUnlink)
           IN /\ nginxConf' = conf
              /\ sitesEnabled' = enabled
              /\ liveConfig' = IF okUnlink
                               THEN reload_nginx(liveConfig, conf, enabled, okTest, okReload)
                               ELSE liveConfig
        /\ routeLog' = [routeLog EXCEPT ![p] =
              @ \o <<FileOp("remove_config", okUnlink)>>
                \o (IF okUnlink
                    THEN <<ReloadOp("reload_nginx", liveConfig,
                                    RemovedConf(nginxConf, p, okUnlink),
                                    RemovedEnabled(sitesEnabled, p, okUnlink),
                                    okTest, okReload)>>
                    ELSE <<>>)]
        /\ Log(p, <<Ev("remove_config", "", okUnlink /\ ReloadSucceeds(okTest, okReload))>>)
        /\ Goto(p, RollbackNext("RollbackRoute", okUnlink /\ ReloadSucceeds(okTest, okReload)))
    /\ UNCHANGED <<unitVars, deleteVars, sqlLog, dnsLog, projectsDb, used_ports, ports, has_service_name, has_frontend_app,
                   result, verification, pgDatabases, pgUsers, pgConnections, envFile, ecosystem, pm2,
                   dnsRecords, projectJson, wrapperVars>>

\* _rollback, third group: drop_database_and_user.
RollbackDatabase(p) ==
    /\ pc[p] = "RollbackDatabase"
    /\ \E okTerm, okDb, okUser \in BOOLEAN :
        LET pg == Pg(pgDatabases, pgUsers, pgConnections)
            stmts == DropStatements(p)
            oks == <<okTerm, okDb, okUser>>
        IN /\ Inject(oks)
           /\ pgDatabases' = ExecAll(pg, stmts, oks).dbs
           /\ pgUsers' = ExecAll(pg, stmts, oks).users
           /\ pgConnections' = ExecAll(pg, stmts, oks).conns
           /\ sqlLog' = [sqlLog EXCEPT ![p] = @ \o stmts]
           /\ Log(p, <<Ev("drop_database_and_user", "", AllSucceed(pg, stmts, oks))>>)
           /\ Goto(p, RollbackNext("RollbackDatabase", AllSucceed(pg, stmts, oks)))
    /\ UNCHANGED <<unitVars, deleteVars, routeLog, dnsLog, projectsDb, used_ports, ports, has_service_name, has_frontend_app,
                   result, verification, envFile, ecosystem, pm2, nginxConf,
                   sitesEnabled, liveConfig, dnsRecords, projectJson, wrapperVars>>

\* _rollback, last group: release_ports(self.ports.get("frontend"),
\* self.ports.get("backend")); then provision_all returns False.
RollbackPorts(p) ==
    /\ pc[p] = "RollbackPorts"
    /\ used_ports' = [used_ports EXCEPT
                        ![p] = release_ports(@, ports[p].frontend, ports[p].backend)]
    /\ Log(p, <<Ev("release_ports", "", TRUE)>>)
    /\ result' = [result EXCEPT ![p] = "False"]
    /\ Goto(p, RollbackNext("RollbackPorts", TRUE))
    /\ dnsRecords' = RollbackDns(dnsRecords, p)
    /\ UNCHANGED <<unitVars, deleteVars, logVars, projectsDb, ports, has_service_name, has_frontend_app,
                   verification, pgDatabases, pgUsers, pgConnections, envFile, ecosystem, pm2, nginxConf,
                   sitesEnabled, liveConfig, projectJson, wrapperVars, budget>>

\* ---------------------------------------------------------- OpenClawWrapper
\* phase_5_service_setup calls InfrastructureManager(project_name,
\* project_path, domain=domain), but __init__ takes (project_name,
\* project_path) only: the call raises TypeError before provision_all is
\* reached, and the phase's "except Exception" returns False.
ManagerAcceptsDomain == FALSE
phase_5_service_setup(success) == IF ManagerAcceptsDomain THEN success ELSE FALSE

\* run_all_phases: phases 1, 3, 4, 6 and 7 only log and return True; phase 2
\* needs the frontend and backend directories; the first failing phase
\* writes 'failed' and returns; 'ready' is written after seven successes.
FinalStatus_SkipsPhase5(dirsExist, success) ==
    IF dirsExist THEN "ready" ELSE "failed"

FinalStatus(dirsExist, success) ==
    IF dirsExist /\ phase_5_service_setup(success) THEN "ready" ELSE "failed"

\* update_status catches every database error and only logs it.
update_status(old, new, okWrite) == IF okWrite THEN new ELSE old

RunAllPhases(p) ==
    /\ pc[p] # "off"
    /\ ~wrapperDone[p]
    /\ \E dirsExist, okWrite \in BOOLEAN :
        LET new == FinalStatus(dirsExist, result[p] = "True")
        IN /\ Inject(<<okWrite>>)
           /\ status' = [status EXCEPT ![p] = update_status(@, new, okWrite)]
           /\ statusWrites' = [statusWrites EXCEPT ![p] = Append(@, new)]
    /\ wrapperDone' = [wrapperDone EXCEPT ![p] = TRUE]
    /\ UNCHANGED <<unitVars, deleteVars, logVars, projectsDb, runVars, worldVars>>

\* ------------------------------------------------- delete_project (app.py)
\* cleanup_infrastructure takes the project name from project.json; without
\* the file it uses the basename of project_path, "<id>_<name>_<timestamp>",
\* under which no service was registered.
NameKnown(meta) == meta.saved

\* What a teardown operation is aimed at, as the parts of its name: the
\* project's resources are named "<project_name><suffix>".
ProjectTarget(p, suffix) == <<"", p, "", suffix>>
OtherTarget(what) == <<"", what, "", "">>

\* project_metadata.get("project_name") or os.path.basename(project_path):
\* the names cleanup_infrastructure builds start from the project name or
\* from the folder name "<id>_<name>_<timestamp>".
CleanupTarget(meta, p, suffix) ==
    IF NameKnown(meta) THEN ProjectTarget(p, suffix)
    ELSE <<"<id>_", p, "_<timestamp>", suffix>>

\* install_config writes f"{project_name}.conf"; cleanup_nginx_config looks
\* for f"{project_name}".
InstalledArtifact(p) == ProjectTarget(p, ".conf")
CleanupArtifact(meta, p) == CleanupTarget(meta, p, "")

\* cleanup_postgresql_database(db_name, db_user): DROP DATABASE IF EXISTS
\* db_name, then DROP USER IF EXISTS db_user, for whatever names it is given.
CleanupStatements(p, db_name, db_user) ==
    <<SqlStmt("drop_database", db_name), SqlStmt("drop_user", db_user)>>

\* How an external command ends: exit 0, a non-zero exit, or a timeout.
CommandOutcomes == {"ok", "error", "timeout"}
Exit0(outcome) == outcome = "ok"

\* cleanup_pm2_services sets "stopped" / "deleted" to True right after
\* subprocess.run returns; run is called without check=True and the return
\* code is not read, so only a timeout (or another exception) leaves False.
Pm2Reported(outcome) == outcome # "timeout"

\* One entry of the teardown log: the operation, what it was aimed at,
\* whether it was skipped, whether the operation did what it is for (ok),
\* what the status report says about it (reported), and the number of
\* failures injected into its commands.
Step(op, target, arg, ok, reported, injected) ==
    [op |-> op, target |-> target, arg |-> arg, ok |-> ok, reported |-> reported,
     injected |-> injected]

\* A pm2 command of cleanup_pm2_services aimed at app: it does something
\* only when the name it was built from is the project's name.
Pm2Step(op, app, known, succeeds, outcome) ==
    Step(op, app, "", known /\ succeeds, Pm2Reported(outcome),
         IF Exit0(outcome) THEN 0 ELSE 1)

\* InfrastructureManager.teardown: nothing is done when project.json does
\* not exist; when it exists, json.loads raises NameError (json is not
\* imported at module level), which the method's "except Exception" logs.
\* No step is reached either way and nothing is returned.  No code of the
\* repository calls the method.
Teardown(p) ==
    /\ del[p] = "idle"
    /\ Finished(p) /\ wrapperDone[p]
    /\ cleanupLog[p] = <<>>
    /\ cleanupLog' = [cleanupLog EXCEPT ![p] =
                         <<Step("teardown", ProjectTarget(p, ""),
                                IF projectJson[p].saved THEN "metadata" ELSE "no_metadata",
                                FALSE, FALSE, 0)>>]
    /\ UNCHANGED <<unitVars, projectsDb, runVars, worldVars, wrapperVars, logVars, projectRows,
                   projectDir, del, budget>>

\* delete_project: the row is read; cleanup_infrastructure runs only when
\* project_path exists, and starts by loading project.json.  The request is
\* taken to arrive once the background run of the project has ended.
DeleteProject(p) ==
    /\ del[p] = "idle"
    /\ Finished(p) /\ wrapperDone[p]
    /\ p \in projectRows
    /\ del' = [del EXCEPT ![p] = IF projectDir[p] THEN "CleanupPm2" ELSE "DeleteRows"]
    /\ cleanupLog' = [cleanupLog EXCEPT ![p] =
                         IF projectDir[p]
                         THEN Append(@, Step("cleanup_infrastructure", ProjectTarget(p, ""),
                                             IF projectJson[p].saved THEN "metadata"
                                             ELSE "no_metadata", TRUE, TRUE, 0))
                         ELSE @]
    /\ UNCHANGED <<unitVars, projectsDb, runVars, worldVars, wrapperVars, logVars, projectRows,
                   projectDir, budget>>

\* Step 1, cleanup_pm2_services: pm2 stop and pm2 delete of the frontend
\* service, then of the backend service, each in its own try block.
CleanupPm2(p) ==
    /\ del[p] = "CleanupPm2"
    /\ \E o1, o2, o3, o4 \in CommandOutcomes :
        LET known == NameKnown(projectJson[p])
            meta == projectJson[p]
            f == FrontendApp(p)
            b == BackendApp(p)
            reg1 == IF known THEN stop_service(pm2, f, Exit0(o1)) ELSE pm2
            reg2 == IF known THEN delete_service(reg1, f, Exit0(o2)) ELSE reg1
            reg3 == IF known THEN stop_service(reg2, b, Exit0(o3)) ELSE reg2
            reg4 == IF known THEN delete_service(reg3, b, Exit0(o4)) ELSE reg3
        IN /\ Inject(<<Exit0(o1), Exit0(o2), Exit0(o3), Exit0(o4)>>)
           /\ pm2' = reg4
           /\ pgConnections' = ClosedConnections(pgConnections, p, reg4)
           /\ cleanupLog' = [cleanupLog EXCEPT ![p] = @ \o
                 <<Pm2Step("pm2 stop", CleanupTarget(meta, p, "-frontend"), known,
                           StopSucceeds(pm2, f, Exit0(o1)), o1),
                   Pm2Step("pm2 delete", CleanupTarget(meta, p, "-frontend"), known,
                           DeleteSucceeds(reg1, f, Exit0(o2)), o2),
                   Pm2Step("pm2 stop", CleanupTarget(meta, p, "-backend"), known,
                           StopSucceeds(reg2, b, Exit0(o3)), o3),
                   Pm2Step("pm2 delete", CleanupTarget(meta, p, "-backend"), known,
                           DeleteSucceeds(reg3, b, Exit0(o4)), o4)>>]
    /\ del' = [del EXCEPT ![p] = "CleanupNginx"]
    /\ UNCHANGED <<unitVars, projectsDb, runVars, pgDatabases, pgUsers, envFile, ecosystem, nginxConf,
                   sitesEnabled, liveConfig, dnsRecords, projectJson, wrapperVars, logVars,
                   projectRows, projectDir>>

\* Step 2, cleanup_nginx_config: it looks for sites-available/<name> and
\* sites-enabled/<name>, while install_config writes <name>.conf, so it
\* finds nothing to remove and reports config_removed = False; then
\* "nginx -t" and, when that exits 0, "systemctl reload nginx" (check=True
\* raises on the first failure), reported as nginx_reloaded.
CleanupNginx(p) ==
    /\ del[p] = "CleanupNginx"
    /\ \E okTest, okReload \in BOOLEAN :
        /\ ~okTest => okReload
        /\ Inject(<<okTest, okReload>>)
        /\ liveConfig' = reload_nginx(liveConfig, nginxConf, sitesEnabled, okTest, okReload)
        /\ routeLog' = [routeLog EXCEPT ![p] =
                           Append(@, ReloadOp("cleanup_nginx_config", liveConfig, nginxConf,
                                              sitesEnabled, okTest, okReload))]
        /\ cleanupLog' = [cleanupLog EXCEPT ![p] = @ \o
              <<Step("remove_config", CleanupArtifact(projectJson[p], p),
                     "not_found", FALSE, FALSE, 0),
                Step("nginx_reload", OtherTarget("nginx"), "", ReloadSucceeds(okTest, okReload),
                     ReloadSucceeds(okTest, okReload), Failures(<<okTest, okReload>>))>>]
    /\ del' = [del EXCEPT ![p] = "CleanupDns"]
    /\ UNCHANGED <<unitVars, projectsDb, runVars, pgDatabases, pgUsers, pgConnections, envFile,
                   ecosystem, pm2, nginxConf, sitesEnabled, dnsRecords, projectJson,
                   wrapperVars, sqlLog, dnsLog, projectRows, projectDir>>

\* Steps 3 and 4: certificates and DNS records are handled only when
\* project.json names the domains; delete_dns_record for the frontend, then
\* for the backend subdomain; "removed" is set when the skill exits 0.
CleanupDns(p) ==
    /\ del[p] = "CleanupDns"
    /\ \E okF, okB \in BOOLEAN :
        LET named == projectJson[p].has_domains
        IN /\ ~named => (okF /\ okB)
           /\ Inject(<<okF, okB>>)
           /\ dnsRecords' =
                 IF named
                 THEN [dnsRecords EXCEPT
                         ![FrontendSub(p)] = IF okF THEN "none" ELSE @,
                         ![BackendSub(p)] = IF okB THEN "none" ELSE @]
                 ELSE dnsRecords
           /\ cleanupLog' = [cleanupLog EXCEPT ![p] = @ \o
                 (IF named
                  THEN <<Step("delete_dns_record", ProjectTarget(p, ""), "", okF, okF,
                              Failures(<<okF>>)),
                         Step("delete_dns_record", ProjectTarget(p, "-api"), "", okB, okB,
                              Failures(<<okB>>))>>
                  ELSE <<Step("delete_dns_record", OtherTarget("none"), "skipped", FALSE, FALSE, 0)>>)]
    /\ del' = [del EXCEPT ![p] = "CleanupDatabase"]
    /\ UNCHANGED <<unitVars, projectsDb, runVars, pgDatabases, pgUsers, pgConnections, envFile,
                   ecosystem, pm2, nginxConf, sitesEnabled, liveConfig, projectJson,
                   wrapperVars, logVars, projectRows, projectDir>>

\* Step 5: cleanup_postgresql_database with the names project.json gives,
\* skipped when it gives none.  The statement is piped to psql, which exits
\* 0 when the server rejects it, so "dropped" is set whenever the command
\* ran.
CleanupDatabase(p) ==
    /\ del[p] = "CleanupDatabase"
    /\ \E okDb, okUser \in BOOLEAN :
        LET db == projectJson[p].database
            named == db.name # NoName /\ db.user # NoName
            pg == Pg(pgDatabases, pgUsers, pgConnections)
            stmts == IF named THEN CleanupStatements(p, db.name, db.user) ELSE <<>>
            oks == SubSeq(<<okDb, okUser>>, 1, Len(stmts))
            pg1 == IF named THEN ExecSql(pg, stmts[1], okDb) ELSE pg
        IN /\ Len(stmts) < 2 => okUser
           /\ Len(stmts) < 1 => okDb
           /\ Inject(<<okDb, okUser>>)
           /\ pgDatabases' = ExecAll(pg, stmts, oks).dbs
           /\ pgUsers' = ExecAll(pg, stmts, oks).users
           /\ sqlLog' = [sqlLog EXCEPT ![p] = @ \o stmts]
           /\ cleanupLog' = [cleanupLog EXCEPT ![p] = @ \o
                 (IF named
                  THEN <<Step("drop_database", <<"", db.name[1], "", db.name[2]>>, "",
                              StmtSucceeds(pg, stmts[1], okDb), okDb, Failures(<<okDb>>)),
                         Step("drop_user", <<"", db.user[1], "", db.user[2]>>, "",
                              StmtSucceeds(pg1, stmts[2], okUser), okUser,
                              Failures(<<okUser>>))>>
                  ELSE <<Step("drop_database", OtherTarget("none"), "skipped", FALSE, FALSE, 0)>>)]
    /\ del' = [del EXCEPT ![p] = "CleanupDirectory"]
    /\ UNCHANGED <<unitVars, projectsDb, runVars, pgConnections, envFile, ecosystem, pm2, nginxConf,
                   sitesEnabled, liveConfig, dnsRecords, projectJson, wrapperVars, routeLog,
                   dnsLog, projectRows, projectDir>>

\* Variant of AfterCleanup that gives up the request when the cleanup
\* reported an error.
AfterCleanup_AbortOnError(errors) == IF errors THEN "done" ELSE "DeleteRows"

\* delete_project catches whatever cleanup_infrastructure raises and does
\* not look at what it reports ("Continue with database deletion even if
\* cleanup fails"): step 3 follows.
AfterCleanup(errors) == "DeleteRows"

\* Step 6, cleanup_project_directory: shutil.rmtree(project_path) takes the
\* folder with project.json, backend/.env and the ecosystem files.  It is
\* the last step: cleanup_infrastructure has no step that releases ports.
CleanupDirectory(p) ==
    /\ del[p] = "CleanupDirectory"
    /\ \E okRm \in BOOLEAN :
        /\ Inject(<<okRm>>)
        /\ projectDir' = [projectDir EXCEPT ![p] = ~okRm]
        /\ projectJson' = IF okRm THEN [projectJson EXCEPT ![p] = NoMeta] ELSE projectJson
        /\ envFile' = IF okRm THEN [envFile EXCEPT ![p] = NoEnv] ELSE envFile
        /\ ecosystem' = IF okRm
                        THEN [ecosystem EXCEPT ![BackendApp(p)] = NoPort,
                                               ![FrontendApp(p)] = NoPort]
                        ELSE ecosystem
        /\ cleanupLog' = [cleanupLog EXCEPT ![p] =
                             Append(@, Step("rmtree", ProjectTarget(p, ""), "", okRm, okRm, Failures(<<okRm>>)))]
        /\ del' = [del EXCEPT ![p] =
                      AfterCleanup(~okRm \/ \E i \in DOMAIN cleanupLog[p] :
                                                cleanupLog[p][i].injected > 0)]
    /\ UNCHANGED <<unitVars, projectsDb, runVars, pgDatabases, pgUsers, pgConnections, pm2, nginxConf,
                   sitesEnabled, liveConfig, dnsRecords, wrapperVars, logVars, projectRows>>

\* The messages, sessions and project rows are deleted whatever the cleanup
\* reported, and the report is returned in the response.
DeleteRows(p) ==
    /\ del[p] = "DeleteRows"
    /\ projectRows' = projectRows \ {p}
    /\ del' = [del EXCEPT ![p] = "done"]
    /\ UNCHANGED <<unitVars, projectsDb, runVars, worldVars, wrapperVars, logVars, projectDir,
                   cleanupLog, budget>>

\* --------------------------------------------------------- direct calls
\* A subdomain as the characters validate_subdomain looks at: a lowercase
\* letter "a", an uppercase letter "A", a digit "1", a hyphen "-", an
\* underscore "_".
LowerLetters == {"a"}
Digits == {"1"}
Hyphen == {"-"}
DOMAIN_MIN_LENGTH == 3
DOMAIN_MAX_LENGTH == 50

\* validate_subdomain: 3 to 50 characters, equal to its lowercase form,
\* matching ^[a-z][a-z0-9-]*$.
validate_subdomain(domain) ==
    /\ Len(domain) >= DOMAIN_MIN_LENGTH
    /\ Len(domain) <= DOMAIN_MAX_LENGTH
    /\ domain[1] \in LowerLetters
    /\ \A i \in DOMAIN domain : domain[i] \in LowerLetters \cup Digits \cup Hyphen

\* The requests that are tried: names and subdomains.
RequestNames == Projects
RequestDomains ==
    {<<"a", "a", "a">>, <<"a", "-", "1">>, <<"a", "a">>, <<"A", "a", "a">>,
     <<"1", "a", "a">>, <<"a", "_", "a">>}

\* create_project: 400 for an invalid subdomain, 409 when a row has the
\* same domain; otherwise a row is inserted under a fresh id.  The name is
\* neither validated nor compared with the names of the other rows.
CreateAccepts(table, name, domain) ==
    /\ validate_subdomain(domain)
    /\ ~\E r \in table : r.domain = domain

\* The INSERT of create_project gives the row the status 'creating'.
InsertedStatus == "creating"

CreateProject(name, domain) ==
    /\ calls < MaxCalls
    /\ calls' = calls + 1
    /\ accepted' = IF CreateAccepts(accepted, name, domain)
                   THEN accepted \cup {[id |-> calls + 1, name |-> name, domain |-> domain,
                                         status |-> InsertedStatus]}
                   ELSE accepted
    /\ UNCHANGED <<projectsDb, runVars, worldVars, wrapperVars, logVars, deleteVars, jobVars,
                   dropLog, portVars, svcCall, budget>>

\* A direct call of DatabaseProvisioner.drop_database_and_user(p).
DropDatabaseAndUser(p) ==
    /\ calls < MaxCalls
    /\ calls' = calls + 1
    /\ \E okTerm, okDb, okUser \in BOOLEAN :
        LET pg == Pg(pgDatabases, pgUsers, pgConnections)
            stmts == DropStatements(p)
            oks == <<okTerm, okDb, okUser>>
        IN /\ Inject(oks)
           /\ pgDatabases' = ExecAll(pg, stmts, oks).dbs
           /\ pgUsers' = ExecAll(pg, stmts, oks).users
           /\ pgConnections' = ExecAll(pg, stmts, oks).conns
           /\ sqlLog' = [sqlLog EXCEPT ![p] = @ \o stmts]
           /\ dropLog' = [dropLog EXCEPT ![p] =
                             Append(@, [before |-> pg, after |-> ExecAll(pg, stmts, oks),
                                        stmts |-> stmts, faults |-> Failures(oks),
                                        raised |-> FALSE])]
    /\ UNCHANGED <<projectsDb, runVars, envFile, ecosystem, pm2, nginxConf, sitesEnabled,
                   liveConfig, dnsRecords, projectJson, wrapperVars, routeLog, dnsLog,
                   deleteVars, jobVars, accepted, portVars, svcCall>>

\* A direct call of DNSProvisioner.provision_project_dns(p).
ProvisionProjectDns(p) ==
    /\ calls < MaxCalls
    /\ calls' = calls + 1
    /\ \E okCheckF, okCreateF, okCheckB, okCreateB \in BOOLEAN :
        LET recF == dnsRecords[FrontendSub(p)]
            recB == dnsRecords[BackendSub(p)]
            legF == DnsLeg(FrontendSub(p), recF, okCheckF, okCreateF)
            legB == DnsLeg(BackendSub(p), recB, okCheckB, okCreateB)
        IN /\ ~CreateAttempted(recF, okCheckF) => okCreateF
           /\ ~CreateAttempted(recB, okCheckB) => okCreateB
           /\ Inject(<<okCheckF, okCreateF, okCheckB, okCreateB>>)
           /\ dnsRecords' = [dnsRecords EXCEPT
                               ![FrontendSub(p)] = legF.after,
                               ![BackendSub(p)] = legB.after]
           /\ dnsLog' = [dnsLog EXCEPT ![p] = @ \o <<legF, legB>>]
    /\ UNCHANGED <<projectsDb, runVars, pgDatabases, pgUsers, pgConnections, envFile,
                   ecosystem, pm2, nginxConf, sitesEnabled, liveConfig, projectJson,
                   wrapperVars, routeLog, sqlLog, deleteVars, jobVars, accepted, dropLog, portVars, svcCall>>

\* The ServiceManager methods that run a pm2 command.
ServiceOps == {"start_backend_service", "stop_service", "delete_service"}

\* A direct call of ServiceManager.create_backend_service(p, port, path):
\* the ecosystem file is written and the app name returned; an error
\* writing it is re-raised.
CreateBackendService(p) ==
    /\ calls < MaxCalls
    /\ calls' = calls + 1
    /\ \E ok \in BOOLEAN :
        /\ Inject(<<ok>>)
        /\ ecosystem' = IF ok THEN [ecosystem EXCEPT ![BackendApp(p)] = BACKEND_PORT_MIN]
                        ELSE ecosystem
        /\ svcCall' = SvcCall("create_backend_service", BackendApp(p),
                              IF ok THEN "ok" ELSE "error",
                              IF ok THEN "app_name" ELSE "None", ~ok)
    /\ UNCHANGED <<projectsDb, runVars, pgDatabases, pgUsers, pgConnections, envFile, pm2,
                   nginxConf, sitesEnabled, liveConfig, dnsRecords, projectJson, wrapperVars,
                   logVars, deleteVars, jobVars, accepted, dropLog, portVars>>

\* A direct call of start_backend_service, stop_service or delete_service
\* for the backend service of p, whose pm2 command exits 0, exits non-zero
\* or exceeds its timeout.  start_backend_service runs no command when the
\* ecosystem file is missing.
ServiceCall(op, p, outcome) ==
    /\ calls < MaxCalls
    /\ calls' = calls + 1
    /\ LET app == BackendApp(p)
           runs == op = "start_backend_service" => ecosystem[app] # NoPort
           ok == Exit0(outcome)
           succeeds ==
               CASE op = "start_backend_service" -> runs /\ ok
                 [] op = "stop_service" -> StopSucceeds(pm2, app, ok)
                 [] op = "delete_service" -> DeleteSucceeds(pm2, app, ok)
       IN /\ ~runs => ok
          /\ Inject(<<ok>>)
          /\ pm2' = CASE op = "start_backend_service" ->
                            start_backend_service(pm2, app, ecosystem, ok)
                       [] op = "stop_service" -> stop_service(pm2, app, ok)
                       [] op = "delete_service" -> delete_service(pm2, app, ok)
          /\ svcCall' = SvcCall(op, app, IF runs THEN outcome ELSE "not_run",
                                ServiceResult(succeeds, outcome), FALSE)
    /\ UNCHANGED <<projectsDb, runVars, pgDatabases, pgUsers, pgConnections, envFile,
                   ecosystem, nginxConf, sitesEnabled, liveConfig, dnsRecords, projectJson,
                   wrapperVars, logVars, deleteVars, jobVars, accepted, dropLog, portVars>>

\* ------------------------------------------- background runs and the status
\* The statuses a row of the projects table can have.
StatusValues == {"creating", "ready", "failed"}

\* The status of a row after the UPDATEs of one run, each in its own
\* connection and each caught and logged when it fails.
RECURSIVE ApplyWrites(_, _, _)
ApplyWrites(old, writes, oks) ==
    IF writes = <<>> THEN old
    ELSE ApplyWrites(update_status(old, Head(writes), Head(oks)), Tail(writes), Tail(oks))

RowStatus(table, id, writes, oks) ==
    {IF r.id = id THEN [r EXCEPT !.status = ApplyWrites(@, writes, oks)] ELSE r : r \in table}

Job(runner, outcome, succeeded, writes) ==
    [runner |-> runner, outcome |-> outcome, succeeded |-> succeeded, writes |-> writes,
     connections |-> Len(writes), returned |-> TRUE]

\* A background run can be started for the row id, once.
Startable(id) == (\E r \in accepted : r.id = id) /\ jobs[id] = NoRun

\* How the "openclaw agent" subprocess of the worker ends: exit code 0,
\* another exit code, TimeoutExpired after 1200 s, or any other exception.
WorkerOutcomes == {"exit_0", "exit_nonzero", "timeout", "raises"}

\* Variant of WorkerStatus that takes a timeout for a success.
WorkerStatus_ReadyOnTimeout(outcome) ==
    IF outcome \in {"exit_0", "timeout"} THEN "ready" ELSE "failed"

\* _worker: 'ready' in the returncode == 0 branch, 'failed' in the else
\* branch and in the two handlers.
WorkerStatus(outcome) == IF outcome = "exit_0" THEN "ready" ELSE "failed"

\* run_openclaw_background._worker: one branch is taken and issues one
\* UPDATE inside "with get_db() as conn", a connection opened in the thread.
Worker(id) ==
    /\ Startable(id)
    /\ \E outcome \in WorkerOutcomes, okWrite \in BOOLEAN :
        LET writes == <<WorkerStatus(outcome)>>
        IN /\ Inject(<<okWrite>>)
           /\ accepted' = RowStatus(accepted, id, writes, <<okWrite>>)
           /\ jobs' = [jobs EXCEPT ![id] =
                          Job("openclaw_worker", outcome, outcome = "exit_0", writes)]
    /\ UNCHANGED <<projectsDb, runVars, worldVars, wrapperVars, logVars, deleteVars,
                   dropLog, calls, portVars, svcCall, namesake>>

\* What FastWrapper.run meets: whether template_id was passed, what the
\* template registry gives for it, and how tasks 2 to 5 end.
RegistryLookups == {"unreadable", "no_match", "match"}
TaskOutcomes == {"succeed", "fail", "raise"}

\* FastWrapper.run.  With a template_id, a registry that cannot be read
\* makes the run "return None" without a status write; without a repository
\* URL (no template_id, or no matching template) 'failed' is written; a
\* task that returns False or raises writes 'failed'; five successes write
\* 'ready'.
FastOutcome(template_id, registry, tasks) ==
    CASE template_id /\ registry = "unreadable" -> "registry_unreadable"
      [] ~template_id \/ registry = "no_match" -> "no_repo_url"
      [] OTHER -> tasks

FastWrites(outcome) ==
    CASE outcome = "registry_unreadable" -> <<>>
      [] outcome = "succeed" -> <<"ready">>
      [] OTHER -> <<"failed">>

FastWrapperRun(id) ==
    /\ Startable(id)
    /\ \E template_id \in BOOLEAN, registry \in RegistryLookups, tasks \in TaskOutcomes :
        LET outcome == FastOutcome(template_id, registry, tasks)
            writes == FastWrites(outcome)
        IN \E oks \in [1 .. Len(writes) -> BOOLEAN] :
              /\ Inject(oks)
              /\ accepted' = RowStatus(accepted, id, writes, oks)
              /\ jobs' = [jobs EXCEPT ![id] =
                             Job("fast_wrapper", outcome, outcome = "succeed", writes)]
    /\ UNCHANGED <<projectsDb, runVars, worldVars, wrapperVars, logVars, deleteVars,
                   dropLog, calls, portVars, svcCall, namesake>>

\* How the claude process ends for wait(timeout=30): exit code 0, another
\* exit code, or still running (TimeoutExpired).
ClaudeExits == {"zero", "nonzero", "timeout"}

\* Variant of ClaudeWrites that records a timeout as a status of its own.
ClaudeWrites_TimeoutStatus(started, signal, exit) ==
    IF ~started THEN <<"failed">>
    ELSE (IF signal THEN <<"ready">> ELSE <<>>)
         \o (CASE exit = "zero" -> IF signal THEN <<>> ELSE <<"ready">>
               [] exit = "nonzero" -> <<"failed">>
               [] exit = "timeout" -> <<"timeout">>)

\* ClaudeCodeWrapper.run: an exception before the loop (Popen) writes
\* 'failed'; a line with a completion keyword writes 'ready' and leaves the
\* loop; then wait(timeout=30): exit code 0 writes 'ready' unless it was
\* written already, another exit code writes 'failed', and TimeoutExpired
\* writes 'failed' in its handler.
ClaudeWrites(started, signal, exit) ==
    IF ~started THEN <<"failed">>
    ELSE (IF signal THEN <<"ready">> ELSE <<>>)
         \o (CASE exit = "zero" -> IF signal THEN <<>> ELSE <<"ready">>
               [] exit = "nonzero" -> <<"failed">>
               [] exit = "timeout" -> <<"failed">>)

ClaudeCodeWrapperRun(id) ==
    /\ Startable(id)
    /\ \E started, signal \in BOOLEAN, exit \in ClaudeExits :
        LET writes == ClaudeWrites(started, signal, exit)
        IN /\ ~started => (~signal /\ exit = "nonzero")
           /\ \E oks \in [1 .. Len(writes) -> BOOLEAN] :
                 /\ Inject(oks)
                 /\ accepted' = RowStatus(accepted, id, writes, oks)
                 /\ jobs' = [jobs EXCEPT ![id] =
                                Job("claude_wrapper",
                                    IF started THEN exit ELSE "not_started",
                                    started /\ exit = "zero", writes)]
    /\ UNCHANGED <<projectsDb, runVars, worldVars, wrapperVars, logVars, deleteVars,
                   dropLog, calls, portVars, svcCall, namesake>>

\* OpenClawWrapper.run_all_phases started for the row id by the script's
\* main: success is what provision_all would return were it reached.
OpenClawWrapperRun(id) ==
    /\ Startable(id)
    /\ \E dirsExist, success, okWrite \in BOOLEAN :
        LET writes == <<FinalStatus(dirsExist, success)>>
        IN /\ Inject(<<okWrite>>)
           /\ accepted' = RowStatus(accepted, id, writes, <<okWrite>>)
           /\ jobs' = [jobs EXCEPT ![id] =
                          Job("openclaw_wrapper",
                              IF dirsExist THEN "service_setup" ELSE "template_setup",
                              dirsExist /\ phase_5_service_setup(success), writes)]
    /\ UNCHANGED <<projectsDb, runVars, worldVars, wrapperVars, logVars, deleteVars,
                   dropLog, calls, portVars, svcCall, namesake>>

\* The PortAllocator that is called directly is the one of this manager.
Allocator == SingleProject
AllocatorConstructed == portCall.op # "none"

\* PortAllocator(): used_ports = set(), then _load_used_ports.  The ports it
\* loads are those of the 'ready' rows, held by the projects of these rows.
NewPortAllocator ==
    /\ ~AllocatorConstructed
    /\ LET loaded == LoadUsedPorts(projectsDb)
       IN /\ used_ports' = [used_ports EXCEPT ![Allocator] = loaded]
          /\ portHolder' = [q \in DOMAIN portHolder |->
                               IF q \in loaded THEN "ready_row" ELSE "none"]
          /\ portCall' = PortCall("construct", "none", <<>>, {}, loaded, NoPort, FALSE,
                                  loaded, portHolder)
    /\ UNCHANGED <<projectsDb, ports, has_service_name, has_frontend_app, pc, result, trace,
                   verification, worldVars, wrapperVars, logVars, deleteVars, jobVars, accepted,
                   dropLog, calls, svcCall, budget>>

\* A direct call of allocate_frontend_port or allocate_backend_port on
\* behalf of project p: the port is returned, or RuntimeError is raised.
AllocatePort(p, tier) ==
    /\ AllocatorConstructed
    /\ calls < MaxCalls
    /\ calls' = calls + 1
    /\ LET used == used_ports[Allocator]
           port == IF tier = "frontend" THEN allocate_frontend_port(used)
                   ELSE allocate_backend_port(used)
           op == IF tier = "frontend" THEN "allocate_frontend_port"
                 ELSE "allocate_backend_port"
       IN /\ used_ports' = [used_ports EXCEPT ![Allocator] = Reserved(used, port)]
          /\ portHolder' = IF port = NoPort THEN portHolder
                           ELSE [portHolder EXCEPT ![port] = p]
          /\ portCall' = PortCall(op, p, <<>>, used, Reserved(used, port), port,
                                  port = NoPort, Reserved(used, port), portHolder)
    /\ UNCHANGED <<projectsDb, ports, has_service_name, has_frontend_app, pc, result, trace,
                   verification, worldVars, wrapperVars, logVars, deleteVars, jobVars, accepted,
                   dropLog, svcCall, budget>>

\* A direct call of release_ports(frontend_port, backend_port) on behalf of
\* project p; None is passed as NoPort.  The method has no parameter that
\* says who releases, and it raises nothing.
ReleasePorts(p, frontend_port, backend_port) ==
    /\ AllocatorConstructed
    /\ calls < MaxCalls
    /\ calls' = calls + 1
    /\ LET used == used_ports[Allocator]
           after == release_ports(used, frontend_port, backend_port)
       IN /\ used_ports' = [used_ports EXCEPT ![Allocator] = after]
          /\ portHolder' = [q \in DOMAIN portHolder |->
                               IF q \in {frontend_port, backend_port} THEN "none"
                               ELSE portHolder[q]]
          /\ portCall' = PortCall("release_ports", p, <<frontend_port, backend_port>>,
                                  used, after, NoPort, FALSE,
                                  release_ports(after, frontend_port, backend_port),
                                  portHolder)
    /\ UNCHANGED <<projectsDb, ports, has_service_name, has_frontend_app, pc, result, trace,
                   verification, worldVars, wrapperVars, logVars, deleteVars, jobVars, accepted,
                   dropLog, svcCall, budget>>

\* ------------------------------------------------------------ specification
Next ==
    \E p \in Projects :
        \/ Construct(p)
        \/ AllocatePorts(p)
        \/ ProvisionDatabase(p)
        \/ ConfigureBackendEnv(p)
        \/ RegisterServices(p)
        \/ ConfigureRoute(p)
        \/ ReloadNginx(p)
        \/ ProvisionDNS(p)
        \/ StartServices(p)
        \/ Verify(p)
        \/ RollbackServices(p)
        \/ RollbackRoute(p)
        \/ RollbackDatabase(p)
        \/ RollbackPorts(p)
        \/ RunAllPhases(p)

Spec == Init /\ [][Next]_vars

SpecConc == InitConc /\ [][Next]_vars

\* A project is provisioned and then deleted, with up to MaxFaults failing commands; project.json is absent, as
\* the manager leaves it, or was put in the project folder by other means.
InitLife ==
    /\ InitWorld
    /\ projectsDb = Db({})
    /\ dnsRecords = [s \in Subdomains |-> "none"]
    /\ envFile = [p \in Projects |-> NoEnv]
    /\ pc = [p \in Projects |-> IF p = SingleProject THEN "idle" ELSE "off"]
    /\ del = [p \in Projects |-> IF p = SingleProject THEN "idle" ELSE "off"]
    /\ \E meta \in MetaContents(SingleProject) :
          projectJson = [p \in Projects |-> IF p = SingleProject THEN meta ELSE NoMeta]
    /\ EmptyPg
    /\ namesake = NoNamesake
    /\ budget = MaxFaults

NextLife ==
    \/ Next
    \/ \E p \in Projects :
        \/ Teardown(p)
        \/ DeleteProject(p)
        \/ CleanupPm2(p)
        \/ CleanupNginx(p)
        \/ CleanupDns(p)
        \/ CleanupDatabase(p)
        \/ CleanupDirectory(p)
        \/ DeleteRows(p)

SpecLife == InitLife /\ [][NextLife]_vars

\* A project is provisioned while an earlier project of the same name has
\* its database and its user in the PostgreSQL container.
InitNamesake ==
    /\ InitWorld
    /\ pc = [p \in Projects |-> IF p = SingleProject THEN "idle" ELSE "off"]
    /\ del = [p \in Projects |-> "off"]
    /\ projectJson = [p \in Projects |-> NoMeta]
    /\ namesake = [p \in Projects |-> IF p = SingleProject THEN NamesakeResources ELSE {}]
    /\ pgDatabases = {DbName(SingleProject)}
    /\ pgUsers = {DbUser(SingleProject)}
    /\ pgConnections = {}
    /\ budget = MaxFaults

SpecNamesake == InitNamesake /\ [][Next]_vars

\* What the PostgreSQL container holds before a direct call: nothing, the
\* database and user of a project, these with an open connection, or a
\* database whose user is gone.
PgContents ==
    {Pg({}, {}, {}),
     Pg({DbName(SingleProject)}, {DbUser(SingleProject)}, {}),
     Pg({DbName(SingleProject)}, {DbUser(SingleProject)}, {DbName(SingleProject)}),
     Pg({DbName(SingleProject)}, {}, {})}

\* Handlers and provisioner methods called directly, MaxCalls times, in any
\* order, with up to MaxFaults failing commands.
InitCalls ==
    /\ InitWorld
    /\ projectsDb = Db({})
    /\ envFile = [p \in Projects |-> NoEnv]
    /\ projectJson = [p \in Projects |-> NoMeta]
    /\ pc = [p \in Projects |-> "off"]
    /\ del = [p \in Projects |-> "off"]
    /\ \E pg \in PgContents :
          pgDatabases = pg.dbs /\ pgUsers = pg.users /\ pgConnections = pg.conns
    /\ namesake = NoNamesake
    /\ budget = MaxFaults

NextCalls ==
    \/ \E name \in RequestNames, domain \in RequestDomains : CreateProject(name, domain)
    \/ \E p \in Projects : DropDatabaseAndUser(p)
    \/ \E p \in Projects : ProvisionProjectDns(p)
    \/ \E p \in Projects : CreateBackendService(p)
    \/ \E op \in ServiceOps, p \in Projects, outcome \in CommandOutcomes :
          ServiceCall(op, p, outcome)

SpecCalls == InitCalls /\ [][NextCalls]_vars

\* A PortAllocator is constructed over some content of projects.db and its
\* methods are called directly, MaxCalls times, in any order, on behalf of
\* any project.
InitPorts ==
    /\ InitWorld
    /\ envFile = [p \in Projects |-> NoEnv]
    /\ dnsRecords = [s \in Subdomains |-> "none"]
    /\ projectJson = [p \in Projects |-> NoMeta]
    /\ pc = [p \in Projects |-> "off"]
    /\ del = [p \in Projects |-> "off"]
    /\ EmptyPg
    /\ namesake = NoNamesake
    /\ budget = 0

NextPorts ==
    \/ NewPortAllocator
    \/ \E p \in Projects, tier \in {"frontend", "backend"} : AllocatePort(p, tier)
    \/ \E p \in Projects :
          \E f \in FrontendRange \cup {NoPort}, b \in BackendRange \cup {NoPort} :
              ReleasePorts(p, f, b)

SpecPorts == InitPorts /\ [][NextPorts]_vars

\* Projects are created and one background run is started for each row,
\* with up to MaxFaults failing writes of the status.
InitStatus ==
    /\ InitWorld
    /\ projectsDb = Db({})
    /\ envFile = [p \in Projects |-> NoEnv]
    /\ dnsRecords = [s \in Subdomains |-> "none"]
    /\ projectJson = [p \in Projects |-> NoMeta]
    /\ pc = [p \in Projects |-> "off"]
    /\ del = [p \in Projects |-> "off"]
    /\ EmptyPg
    /\ namesake = NoNamesake
    /\ budget = MaxFaults

NextStatus ==
    \/ \E name \in RequestNames, domain \in RequestDomains : CreateProject(name, domain)
    \/ \E id \in RowIds : Worker(id)
    \/ \E id \in RowIds : FastWrapperRun(id)
    \/ \E id \in RowIds : ClaudeCodeWrapperRun(id)
    \/ \E id \in RowIds : OpenClawWrapperRun(id)

SpecStatus == InitStatus /\ [][NextStatus]_vars

\* ================================================================== claims
ForwardOps ==
    {"AllocatePorts", "ProvisionDatabase", "ConfigureBackendEnv", "RegisterServices",
     "ConfigureRoute", "ProvisionDNS", "StartServices", "Verify"}
CompensationOps ==
    {"stop_service", "delete_service", "remove_config", "drop_database_and_user",
     "release_ports"}

Events(p) == {trace[p][i] : i \in DOMAIN trace[p]}
HasEvent(p, op) == \E e \in Events(p) : e.op = op
HasServiceEvent(p, op, tier) == \E e \in Events(p) : e.op = op /\ e.arg = tier

\* _rollback has been entered by p's run.
InRollback(p) ==
    pc[p] \in {"RollbackServices", "RollbackRoute", "RollbackDatabase", "RollbackPorts"}
RollbackEntered(p) == InRollback(p) \/ HasEvent(p, "release_ports")


\* Every compensation p's rollback performed reported success.
CompensationsSucceeded(p) ==
    \A e \in Events(p) : e.op \in CompensationOps => e.ok

\* Nothing of p is left: no port beyond those loaded from projects.db is in
\* its allocator's used-set, no database, no user, no route artifact, no
\* enabled symlink, no running service.
NoResourceLeft(p) ==
    /\ used_ports[p] \subseteq LoadUsedPorts(projectsDb)
    /\ DbName(p) \notin pgDatabases
    /\ DbUser(p) \notin pgUsers
    /\ nginxConf[p] = NoConf
    /\ p \notin sitesEnabled
    /\ pm2[BackendApp(p)].state # "online"
    /\ pm2[FrontendApp(p)].state # "online"

\* C1: saga property - once provision_all has finished after a failed phase
\* (and every compensation of the rollback succeeded), no resource of the
\* project remains: no held port, no database or user, no route artifact
\* or symlink, no running service.
C1_SagaNoLeak ==
    \A p \in Projects :
        (Finished(p) /\ result[p] = "False" /\ CompensationsSucceeded(p))
            => NoResourceLeft(p)

\* C2: the failure of any phase other than ProvisionDNS halts forward
\* progress - no later phase is executed after it - and the run ends Failed.
C2_FailureHaltsProgress ==
    \A p \in Projects :
        /\ \A i, j \in DOMAIN trace[p] :
              (/\ i < j
               /\ trace[p][i].op \in ForwardOps \ {"ProvisionDNS"}
               /\ ~trace[p][i].ok)
                  => trace[p][j].op \notin ForwardOps
        /\ (Finished(p) /\ \E e \in Events(p) : e.op \in ForwardOps \ {"ProvisionDNS"} /\ ~e.ok)
              => result[p] = "False"

\* p's run holds the ports it obtained (allocated and not yet released).
HoldsPorts(p) ==
    /\ ports[p].frontend # NoPort
    /\ ports[p].frontend \in used_ports[p]
    /\ ports[p].backend \in used_ports[p]

\* C4: two concurrently provisioning runs of different projects never hold
\* the same frontend port or the same backend port.
C4_ConcurrentRunsDistinctPorts ==
    \A p, q \in Projects :
        (p # q /\ HoldsPorts(p) /\ HoldsPorts(q))
            => /\ ports[p].frontend # ports[q].frontend
               /\ ports[p].backend # ports[q].backend

\* Position of an operation in the order forward phases, services, route,
\* database, ports.
Rank(op) ==
    CASE op \in ForwardOps -> 0
      [] op \in {"stop_service", "delete_service"} -> 1
      [] op = "remove_config" -> 2
      [] op = "drop_database_and_user" -> 3
      [] op = "release_ports" -> 4

\* C5: the compensations of a rollback run in reverse phase order - stop
\* and delete the services, then remove the route and reload, then drop the
\* database and user, then release the ports - and a group starts only
\* after the group before it has been attempted.
C5_ReverseOrder ==
    \A p \in Projects :
        /\ \A i, j \in DOMAIN trace[p] :
              i < j => Rank(trace[p][i].op) <= Rank(trace[p][j].op)
        /\ HasEvent(p, "remove_config") =>
              /\ has_service_name[p] => HasServiceEvent(p, "delete_service", "backend")
              /\ has_frontend_app[p] => HasServiceEvent(p, "delete_service", "frontend")
        /\ HasEvent(p, "drop_database_and_user") => HasEvent(p, "remove_config")
        /\ HasEvent(p, "release_ports") => HasEvent(p, "drop_database_and_user")

\* A finished rollback that went through all four groups, services included.
C5_Witness ==
    \E p \in Projects :
        /\ Finished(p)
        /\ HasServiceEvent(p, "stop_service", "backend")
        /\ HasServiceEvent(p, "delete_service", "frontend")
        /\ HasEvent(p, "remove_config")
        /\ HasEvent(p, "drop_database_and_user")
        /\ HasEvent(p, "release_ports")

C9_RollbackReportedFailed ==
    \A p \in Projects :
        RollbackEntered(p) =>
            /\ result[p] # "True"
            /\ Finished(p) => result[p] = "False"
            /\ status[p] # "ready"
            /\ wrapperDone[p] => statusWrites[p] = <<"failed">>

\* A finished run whose rollback had a failed compensation, reported False
\* by provision_all and 'failed' by the wrapper.
C9_Witness ==
    \E p \in Projects :
        /\ Finished(p)
        /\ ~CompensationsSucceeded(p)
        /\ result[p] = "False"
        /\ wrapperDone[p]
        /\ status[p] = "failed"

\* p is between writing its route artifact and the end of its reload.
InRouteSection(p) == pc[p] = "ReloadNginx"

\* C12: the install, test, reload sequences of concurrently provisioning
\* projects do not interleave - while a project is between writing its
\* route artifact and finishing its reload, no install, remove, test or
\* reload step of any project is performed (each such step appends to
\* routeLog).
C12_RouteSequencesDoNotInterleave ==
    [][\A p \in Projects :
          (InRouteSection(p) /\ pc'[p] = pc[p]) => routeLog' = routeLog]_vars

DnsLegs(p) == {dnsLog[p][i] : i \in DOMAIN dnsLog[p]}

\* The existence check reported a record that points at another address.
Conflict(leg) == leg.exists /\ leg.ip # "server_ip"

\* C17: when the existence check reports that a subdomain exists with an IP
\* other than the server's, no create is issued for it, its outcome is not
\* successful, and the record is left pointing where it pointed.
C17_ConflictNeverRepointed ==
    \A p \in Projects : \A leg \in DnsLegs(p) :
        Conflict(leg) =>
            /\ ~leg.create_called
            /\ ~leg.success
            /\ leg.after = leg.before
            /\ dnsRecords[leg.sub] = leg.before

\* A leg found its record pointing at another address.
C17_Witness ==
    \E p \in Projects : \E leg \in DnsLegs(p) :
        Conflict(leg) /\ leg.before = "other_ip"

\* C18: a DNS conflict on either subdomain is a soft failure - both legs
\* are processed and recorded, the run goes on to StartServices instead of
\* to rollback, and to Verify when StartServices does not raise.
C18_ConflictIsSoftFailure ==
    \A p \in Projects :
        (\E leg \in DnsLegs(p) : Conflict(leg)) =>
            /\ Len(dnsLog[p]) = 2
            /\ dnsLog[p][1].sub = FrontendSub(p)
            /\ dnsLog[p][2].sub = BackendSub(p)
            /\ pc[p] = "StartServices" \/ HasEvent(p, "StartServices")
            /\ has_frontend_app[p] => (pc[p] = "Verify" \/ HasEvent(p, "Verify"))

\* The frontend leg conflicted, the backend leg then created its record,
\* and the run went on through StartServices to Verify.
C18_Witness ==
    \E p \in Projects :
        /\ Len(dnsLog[p]) = 2
        /\ Conflict(dnsLog[p][1])
        /\ dnsLog[p][2].create_called
        /\ dnsLog[p][2].success
        /\ HasEvent(p, "StartServices")
        /\ HasEvent(p, "Verify")

\* C19: rollback never deletes or modifies a DNS record - no step taken
\* while a run is in _rollback changes the set of records.
C19_RollbackKeepsDns ==
    [][(\E p \in Projects : InRollback(p)) => dnsRecords' = dnsRecords]_vars

\* A run that created its frontend record was rolled back, and the record
\* is still there.
C19_Witness ==
    \E p \in Projects :
        /\ Finished(p)
        /\ result[p] = "False"
        /\ \E leg \in DnsLegs(p) :
              /\ leg.sub = FrontendSub(p)
              /\ leg.create_called
              /\ leg.before = "none"
              /\ leg.after = "server_ip"
        /\ dnsRecords[FrontendSub(p)] = "server_ip"

\* The order of the phases the claim states.
C20_Order ==
    <<"AllocatePorts", "ProvisionDatabase", "ConfigureBackendEnv", "RegisterServices",
      "ConfigureRoute", "ProvisionDNS", "StartServices", "Verify">>

\* The forward phases p's run has finished, in the order it finished them.
ForwardTrace(p) ==
    LET IsForward(e) == e.op \in ForwardOps
    IN SelectSeq(trace[p], IsForward)

\* The phase p's run is in (the reload belongs to ConfigureRoute).
CurrentPhase(p) == IF pc[p] = "ReloadNginx" THEN "ConfigureRoute" ELSE pc[p]

\* C20: in every run the phases execute in the order AllocatePorts,
\* ProvisionDatabase, ConfigureBackendEnv, RegisterServices, ConfigureRoute,
\* ProvisionDNS, StartServices, Verify - each phase at most once, the phase
\* a run is in is the one after the last it finished, and a run is in one
\* phase at a time.
C20_PhaseOrder ==
    \A p \in Projects :
        /\ Len(ForwardTrace(p)) <= Len(C20_Order)
        /\ \A i \in DOMAIN ForwardTrace(p) : ForwardTrace(p)[i].op = C20_Order[i]
        /\ CurrentPhase(p) \in ForwardOps =>
              /\ Len(ForwardTrace(p)) < Len(C20_Order)
              /\ CurrentPhase(p) = C20_Order[Len(ForwardTrace(p)) + 1]

\* A run that went through all eight phases.
C20_Witness ==
    \E p \in Projects :
        /\ Len(ForwardTrace(p)) = Len(C20_Order)
        /\ Finished(p)

\* The test-and-reload records of p's calls (reload_nginx of the manager,
\* cleanup_nginx_config of delete_project).
ReloadCalls(p) ==
    {routeLog[p][i] : i \in {k \in DOMAIN routeLog[p] :
                                routeLog[p][k].op \in {"reload_nginx", "cleanup_nginx_config"}}}

\* C11: nginx is signalled to reload only after the syntax test of the same
\* call succeeded - in reload_nginx and in cleanup_nginx_config a failed
\* test means no reload is issued, the call reports failure, and the
\* configuration nginx serves is what it was before the call.
C11_ReloadOnlyAfterTest ==
    \A p \in Projects : \A call \in ReloadCalls(p) :
        /\ call.reload_issued => call.test_ok
        /\ ~call.test_ok =>
              /\ ~call.reload_issued
              /\ ~call.result
              /\ call.live_same

\* The test failed once in reload_nginx, with an installed route waiting to
\* be loaded, and once in cleanup_nginx_config.
C11_Witness ==
    \E p \in Projects :
        /\ \E call \in ReloadCalls(p) : call.op = "reload_nginx" /\ ~call.test_ok
        /\ \E call \in ReloadCalls(p) : call.op = "cleanup_nginx_config" /\ ~call.test_ok
        /\ \E i \in DOMAIN routeLog[p] :
              routeLog[p][i].op = "install_config" /\ routeLog[p][i].result

\* Names no drop may target: the shared databases and the engine's system
\* schemas.
ProtectedNames ==
    {<<"postgres", "">>, <<"defaultdb", "">>, <<"dreampilot", "">>,
     <<"template0", "">>, <<"template1", "">>, <<"information_schema", "">>,
     <<"pg_catalog", "">>, <<"admin", "">>}

\* C13: no DROP DATABASE or DROP USER is issued, on behalf of a project,
\* for a target that is protected or that is not the project's own
\* {slug}_db / {slug}_user - by drop_database_and_user or by
\* cleanup_postgresql_database.
C13_DropValidationGate ==
    \A p \in Projects : \A i \in DOMAIN sqlLog[p] :
        LET stmt == sqlLog[p][i]
        IN /\ stmt.kind = "drop_database" =>
                 (stmt.target = DbName(p) /\ stmt.target \notin ProtectedNames)
           /\ stmt.kind = "drop_user" =>
                 (stmt.target = DbUser(p) /\ stmt.target \notin ProtectedNames)

\* The names the orchestrator derives for a project from its name.
ResourceNames(name) ==
    [database |-> DbName(name), user |-> DbUser(name), backend |-> BackendApp(name),
     frontend |-> FrontendApp(name), route |-> <<name, ".conf">>]

\* C14: any two distinct projects accepted by create_project get different
\* derived resource names - database, database user, backend and frontend
\* service, route artifact.
C14_DistinctResourceNames ==
    \A a, b \in accepted :
        a.id # b.id =>
            /\ ResourceNames(a.name).database # ResourceNames(b.name).database
            /\ ResourceNames(a.name).user # ResourceNames(b.name).user
            /\ ResourceNames(a.name).backend # ResourceNames(b.name).backend
            /\ ResourceNames(a.name).frontend # ResourceNames(b.name).frontend
            /\ ResourceNames(a.name).route # ResourceNames(b.name).route

Kinds(stmts) == [i \in DOMAIN stmts |-> stmts[i].kind]

\* C15: drop_database_and_user terminates the connections to the database,
\* then drops the database, then drops the user; when neither exists the
\* call completes without error and changes nothing; and when no command
\* fails, a second drop leaves what the first one left, which is neither
\* the database nor the user.
C15_DropOrderAndIdempotence ==
    \A p \in Projects :
        /\ \A i \in DOMAIN dropLog[p] :
            LET call == dropLog[p][i]
            IN /\ Kinds(call.stmts) = <<"terminate", "drop_database", "drop_user">>
               /\ call.stmts[1].target = DbName(p)
               /\ call.stmts[2].target = DbName(p)
               /\ call.stmts[3].target = DbUser(p)
               /\ ~call.raised
               /\ (DbName(p) \notin call.before.dbs /\ DbUser(p) \notin call.before.users)
                     => (call.after.dbs = call.before.dbs
                         /\ call.after.users = call.before.users)
               /\ call.faults = 0 =>
                     (DbName(p) \notin call.after.dbs /\ DbUser(p) \notin call.after.users)
        /\ \A i \in DOMAIN dropLog[p] :
              (i > 1 /\ dropLog[p][i - 1].faults = 0 /\ dropLog[p][i].faults = 0
               /\ dropLog[p][i].before = dropLog[p][i - 1].after)
                  => dropLog[p][i].after = dropLog[p][i - 1].after

\* The database, with an open connection, and its user were dropped by a
\* first call, and a second call found neither and changed nothing.
C15_Witness ==
    \E p \in Projects :
        /\ Len(dropLog[p]) = 2
        /\ DbName(p) \in dropLog[p][1].before.conns
        /\ DbUser(p) \in dropLog[p][1].before.users
        /\ dropLog[p][1].faults = 0
        /\ dropLog[p][2].faults = 0
        /\ DbName(p) \notin dropLog[p][2].before.dbs
        /\ dropLog[p][2].after = dropLog[p][1].after

TierRange(op) ==
    IF op = "allocate_frontend_port"
    THEN {q \in FRONTEND_PORT_MIN .. FRONTEND_PORT_MAX : q # FRONTEND_PORT_MAX}
    ELSE {q \in BACKEND_PORT_MIN .. BACKEND_PORT_MAX : q # BACKEND_PORT_MAX}
AllocationOps == {"allocate_frontend_port", "allocate_backend_port"}

\* C21: when the tier's range is not full, allocate_frontend_port and
\* allocate_backend_port return the smallest port of the range that is not
\* in the used-set and add exactly that port to the used-set.
C21_SmallestFreePort ==
    (portCall.op \in AllocationOps /\ ~(TierRange(portCall.op) \subseteq portCall.before))
        => /\ ~portCall.raised
           /\ portCall.returned \in TierRange(portCall.op) \ portCall.before
           /\ \A q \in TierRange(portCall.op) :
                 q < portCall.returned => q \in portCall.before
           /\ portCall.after = portCall.before \cup {portCall.returned}
           /\ used_ports[Allocator] = portCall.after

\* An allocation that skipped the occupied first port of its range and
\* returned the second.
C21_Witness ==
    /\ portCall.op = "allocate_backend_port"
    /\ BACKEND_PORT_MIN \in portCall.before
    /\ portCall.returned = BACKEND_PORT_MIN + 1
    /\ portCall.after = portCall.before \cup {BACKEND_PORT_MIN + 1}

\* C22: when every port of the tier's range is in the used-set, the
\* allocation raises, returns no port and leaves the used-set as it was.
C22_ExhaustedRangeRaises ==
    (portCall.op \in AllocationOps /\ TierRange(portCall.op) \subseteq portCall.before)
        => /\ portCall.raised
           /\ portCall.returned = NoPort
           /\ portCall.after = portCall.before
           /\ used_ports[Allocator] = portCall.before

\* A frontend allocation made when the whole frontend range was in use.
C22_Witness ==
    /\ portCall.op = "allocate_frontend_port"
    /\ FrontendRange \subseteq portCall.before
    /\ portCall.raised

\* The ports projects.db records for the projects in 'ready' status.
RecordedReadyPorts(db) ==
    {q \in FrontendRange \cup BackendRange :
        \E r \in db.rows : r.status = "ready" /\ q \in {r.frontend_port, r.backend_port}}

C23_ReleaseIdempotentAndOwned ==
    portCall.op = "release_ports"
        => /\ ~portCall.raised
           /\ portCall.again = portCall.after
           /\ (\A q \in {portCall.args[1], portCall.args[2]} : q \notin portCall.before)
                 => portCall.after = portCall.before
           /\ \A q \in portCall.before \ portCall.after :
                 portCall.holders[q] = portCall.caller

\* The entries of p's teardown log.
CleanupSteps(p) == {cleanupLog[p][i] : i \in DOMAIN cleanupLog[p]}

\* teardown or cleanup_infrastructure has returned for p.
TeardownReturned(p) ==
    \E e \in CleanupSteps(p) : e.op \in {"teardown", "rmtree"}

\* It ran without a project.json.
MetadataAbsent(p) ==
    \E e \in CleanupSteps(p) :
        e.op \in {"teardown", "cleanup_infrastructure"} /\ e.arg = "no_metadata"

\* The operation was run and was aimed at target.
Attempted(p, op, target) ==
    \E e \in CleanupSteps(p) :
        e.op = op /\ e.target = target /\ e.arg \notin {"skipped", "not_found"}

\* C25: a teardown that runs without the project's metadata record falls
\* back to the conventional names derived from the project's name and
\* still attempts to drop the database and the user, to delete the two
\* service registrations and to remove the route artifact.
C25_FallbackToConventionalNames ==
    \A p \in Projects :
        (TeardownReturned(p) /\ MetadataAbsent(p)) =>
            /\ Attempted(p, "drop_database", ProjectTarget(p, "_db"))
            /\ Attempted(p, "drop_user", ProjectTarget(p, "_user"))
            /\ Attempted(p, "pm2 delete", ProjectTarget(p, "-backend"))
            /\ Attempted(p, "pm2 delete", ProjectTarget(p, "-frontend"))
            /\ Attempted(p, "remove_config", InstalledArtifact(p))

\* Position of a teardown operation in the order services, route, database,
\* ports; 0 for the operations outside these four.
TeardownRank(op) ==
    CASE op \in {"pm2 stop", "pm2 delete"} -> 1
      [] op \in {"remove_config", "nginx_reload"} -> 2
      [] op \in {"drop_database", "drop_user"} -> 3
      [] op = "release_ports" -> 4
      [] OTHER -> 0

\* Some operation of that rank was run.
RankAttempted(p, rank) ==
    \E e \in CleanupSteps(p) : TeardownRank(e.op) = rank /\ e.arg # "skipped"

\* C26: a teardown runs services, route, database, ports in that order and
\* attempts every one of them, the release of the ports included, whatever
\* the earlier steps did.
C26_TeardownOrderUnconditional ==
    \A p \in Projects :
        /\ \A i, j \in DOMAIN cleanupLog[p] :
              (i < j /\ TeardownRank(cleanupLog[p][i].op) > 0
                     /\ TeardownRank(cleanupLog[p][j].op) > 0)
                 => TeardownRank(cleanupLog[p][i].op) <= TeardownRank(cleanupLog[p][j].op)
        /\ TeardownReturned(p) => \A rank \in 1 .. 4 : RankAttempted(p, rank)

\* The operations the report of cleanup_infrastructure has entries for.
ReportedOps ==
    {"pm2 stop", "pm2 delete", "remove_config", "nginx_reload", "delete_dns_record",
     "drop_database", "rmtree"}

\* C27: the report cleanup_infrastructure returns has an entry for every
\* step, and says of an operation that it succeeded - stopped, deleted,
\* removed, dropped - only when the operation did succeed; a pm2 stop or
\* delete that exits with an error is not reported as stopped or deleted.
C27_ReportIsTruthful ==
    \A p \in Projects :
        /\ (\E e \in CleanupSteps(p) : e.op = "rmtree") =>
              \A op \in ReportedOps : \E e \in CleanupSteps(p) : e.op = op
        /\ \A e \in CleanupSteps(p) : e.reported => e.ok

\* Every phase of p's run up to the verification succeeded: the ports, the
\* database, the services and the route of the project were all set up.
Provisioned(p) ==
    \A op \in ForwardOps \ {"Verify"} : \E e \in Events(p) : e.op = op /\ e.ok

C29_TimeoutIsDistinctOutcome ==
    (svcCall.op \in ServiceOps /\ svcCall.outcome = "timeout")
        => /\ ~svcCall.raised
           /\ svcCall.returned \notin {ServiceResult(FALSE, "error"), ServiceResult(TRUE, "ok")}

\* C30: whenever the backend service of a run has been started, the
\* backend's .env holds the DATABASE_URL the database provisioner returned
\* in this run and the BACKEND_PORT allocated in this run, also when the
\* file existed before the run with older values.
C30_EnvConfiguredBeforeStart ==
    \A p \in Projects :
        (HasEvent(p, "StartServices") /\ del[p] \in {"off", "idle"})
            => /\ HasEvent(p, "ConfigureBackendEnv")
               /\ envFile[p].DATABASE_URL = DatabaseUrl(p)
               /\ envFile[p].BACKEND_PORT = ports[p].backend

C40_HealthOnlyWhenPortOpen ==
    \A p \in Projects :
        verification[p].done =>
            /\ verification[p].backend_health_ok => verification[p].backend_port_open
            /\ (verification[p].health_response # "not_probed")
                  = verification[p].backend_port_open

\* The backend port refused the connection and no probe was issued.
C40_WitnessSkipped ==
    \E p \in Projects :
        /\ verification[p].done
        /\ ~verification[p].backend_port_open
        /\ verification[p].health_response = "not_probed"
        /\ ~verification[p].backend_health_ok

\* The backend port accepted the connection and the probe was issued.
C40_WitnessProbed ==
    \E p \in Projects :
        /\ verification[p].done
        /\ verification[p].backend_port_open
        /\ verification[p].health_response = "status_ok"

\* The number of events of p's run that record the operation op.
Occurrences(p, op) == Cardinality({i \in DOMAIN trace[p] : trace[p][i].op = op})

\* C35: provision_all never raises - whatever the leaf operations do, it
\* returns True or False; it returns False exactly when _rollback was
\* invoked, and _rollback is invoked at most once per run.
C35_ReturnsBooleanRollbackOnce ==
    \A p \in Projects :
        /\ Finished(p) => result[p] \in {"True", "False"}
        /\ result[p] # "none" => Finished(p)
        /\ Finished(p) => ((result[p] = "False") = RollbackEntered(p))
        /\ Occurrences(p, "release_ports") <= 1
        /\ Occurrences(p, "drop_database_and_user") <= 1
        /\ Occurrences(p, "remove_config") <= 1

\* A run that failed in a late phase has returned False after one rollback.
C35_Witness ==
    \E p \in Projects :
        /\ Finished(p)
        /\ result[p] = "False"
        /\ HasEvent(p, "StartServices")
        /\ Occurrences(p, "release_ports") = 1

\* Phase 1 of p's run obtained a frontend port and then found the backend
\* range exhausted.
BackendExhaustedAfterFrontend(p) ==
    /\ \E e \in Events(p) : e.op = "AllocatePorts" /\ ~e.ok
    /\ BackendRange \subseteq LoadUsedPorts(projectsDb)
    /\ ~(FrontendRange \subseteq LoadUsedPorts(projectsDb))

\* C36: when the frontend allocation succeeded and the backend allocation
\* then failed on an exhausted range, the rollback releases the frontend
\* port - after the run the allocator's used-set is what it was before it.
C36_PartialAllocationReleased ==
    \A p \in Projects :
        (Finished(p) /\ BackendExhaustedAfterFrontend(p))
            => used_ports[p] = LoadUsedPorts(projectsDb)

\* The step is one of p's rollback (a group of _rollback has run).
RollbackStep(p) == InRollback(p) /\ pc'[p] # pc[p]

\* What project q holds is after the step what it was before it.
ResourcesUntouched(q) ==
    /\ used_ports'[q] = used_ports[q]
    /\ DbName(q) \in pgDatabases => DbName(q) \in pgDatabases'
    /\ DbUser(q) \in pgUsers => DbUser(q) \in pgUsers'
    /\ pm2'[BackendApp(q)] = pm2[BackendApp(q)]
    /\ pm2'[FrontendApp(q)] = pm2[FrontendApp(q)]
    /\ nginxConf'[q] = nginxConf[q]
    /\ q \in sitesEnabled => q \in sitesEnabled'

\* What the earlier project of p's name holds is still there after the step.
NamesakeUntouched(p) ==
    /\ ("database" \in namesake[p] /\ DbName(p) \in pgDatabases)
          => DbName(p) \in pgDatabases'
    /\ ("user" \in namesake[p] /\ DbUser(p) \in pgUsers) => DbUser(p) \in pgUsers'

\* C37: a rollback of project p leaves the resources of every other project
\* as they are - the other project's ports stay in its used-set and its
\* database, user, service registrations and route artifact are neither
\* stopped, removed nor dropped.
C37_RollbackLeavesOthersAlone ==
    [][\A p \in Projects :
          RollbackStep(p) => /\ \A q \in Projects \ {p} : ResourcesUntouched(q)
                             /\ NamesakeUntouched(p)]_vars

\* The part of C37 about projects whose names differ.
C37_DistinctNames ==
    [][\A p \in Projects :
          RollbackStep(p) => \A q \in Projects \ {p} : ResourcesUntouched(q)]_vars

\* The positions of a delete_project request between reading the row and
\* deleting it.
BeforeDeleteRows ==
    {"CleanupPm2", "CleanupNginx", "CleanupDns", "CleanupDatabase", "CleanupDirectory",
     "DeleteRows"}

Returned(runner) == {id \in RowIds : jobs[id].returned /\ jobs[id].runner = runner}
Written(id) == {jobs[id].writes[i] : i \in DOMAIN jobs[id].writes}
RowOf(id) == CHOOSE r \in accepted : r.id = id

\* C32: the status of a project is always one of 'creating', 'ready' and
\* 'failed' - create_project inserts the row with 'creating' and every
\* later write of a wrapper or of the worker writes 'ready' or 'failed'.
C32_StatusDomain ==
    /\ \A r \in accepted : r.status \in StatusValues
    /\ \A r \in accepted : jobs[r.id] = NoRun => r.status = "creating"
    /\ \A id \in RowIds : Written(id) \subseteq {"ready", "failed"}
    /\ \A p \in Projects :
          /\ status[p] \in StatusValues
          /\ \A i \in DOMAIN statusWrites[p] : statusWrites[p][i] \in {"ready", "failed"}

\* A row is still 'creating', another was set to 'ready' and then 'failed'
\* by the two writes of one run.
C32_Witness ==
    \E a, b \in accepted :
        /\ a.status = "creating" /\ jobs[a.id] = NoRun
        /\ b.status = "failed" /\ jobs[b.id].writes = <<"ready", "failed">>

\* C33: the worker started by run_openclaw_background writes 'ready' when
\* the agent subprocess exits 0 and 'failed' when it exits non-zero, times
\* out or raises; each run attempts exactly one status write, on a database
\* connection of its own.
C33_WorkerWritesOnce ==
    \A id \in Returned("openclaw_worker") :
        /\ Len(jobs[id].writes) = 1
        /\ jobs[id].connections = 1
        /\ jobs[id].outcome = "exit_0" => jobs[id].writes = <<"ready">>
        /\ jobs[id].outcome \in {"exit_nonzero", "timeout", "raises"}
              => jobs[id].writes = <<"failed">>

\* A worker whose subprocess timed out has set its row to 'failed'.
C33_Witness ==
    \E id \in Returned("openclaw_worker") :
        /\ jobs[id].outcome = "timeout"
        /\ RowOf(id).status = "failed"

\* C34: every run of a provisioning wrapper (OpenClawWrapper.run_all_phases,
\* FastWrapper.run) ends having written a terminal status - 'ready' if all
\* its steps succeeded and 'failed' otherwise; no run returns leaving the
\* project in 'creating'.
C34_WrapperWritesTerminalStatus ==
    \A id \in Returned("openclaw_wrapper") \cup Returned("fast_wrapper") :
        /\ jobs[id].writes # <<>>
        /\ jobs[id].writes = <<IF jobs[id].succeeded THEN "ready" ELSE "failed">>

\* C38: within one wrapper run the terminal status is stable - once 'ready'
\* has been written, no later step of the same run writes 'failed'.
C38_ReadyIsFinal ==
    \A id \in RowIds :
        \A i, j \in DOMAIN jobs[id].writes :
            (i < j /\ jobs[id].writes[i] = "ready") => jobs[id].writes[j] # "failed"

====
